---------------------------- MODULE Spec2Model ----------------------------
(***************************************************************************)
(* A model of the AWK interpreter (RogerWilloughby/awk-interpreter).       *)
(*                                                                         *)
(* The module holds several specifications, one per part of the            *)
(* interpreter:                                                            *)
(*   SpecRun    Interpreter::run and the rule drivers (interpreter.cpp)     *)
(*   SpecCall   call_user_function and the scope stack                      *)
(*   SpecIO     the I/O registries, close() and cleanup_io                  *)
(*   SpecOut    print and printf redirected to a file                       *)
(*   SpecRec    record / field handling and the dirty flags                 *)
(*   SpecCache  the cache of the special variables                          *)
(*   SpecRange  range patterns in pattern_matches                           *)
(*   SpecParse  Lexer, Parser and the start of main()                       *)
(*   SpecInc    the @include directive of the parser                        *)
(*   SpecEval   variables, arrays, assignment and calls with arrays         *)
(*   SpecLex    the lexer's choice between a regex and a division           *)
(*   SpecRegex  the cache of compiled regexes                               *)
(* Every specification constrains all variables; the variables of the      *)
(* parts it does not model stay at their constructed values.               *)
(***************************************************************************)
EXTENDS Integers, Sequences, FiniteSets, TLC

\* ------------------------------------------------------------------------
\* Bounds of the model
\* ------------------------------------------------------------------------

\* number of rules of a program
MaxRules == 3

\* number of input files given to run()
MaxFiles == 2

\* number of records an input stream holds
MaxRecs == 2

\* nesting of active user function calls
MaxDepth == 2

\* length of the scope stack
MaxScopes == 2

\* nesting of loops inside one function body or rule action
MaxLoops == 1

\* streams a run opens (entries created in the I/O registries)
MaxOpens == 2

\* fields of an input record, and the largest field index a program uses
MaxField == 2

\* records read by read_record while the fields are observed
MaxReads == 1

\* assignments to special variables in one run
MaxAssigns == 1

\* characters of a record matched against a range pattern
MaxRangeLen == 2

\* the largest value N of an `exit N` statement
MaxStatus == 1

\* print statements with a redirection to a file in one run
MaxWrites == 3

\* top-level items (rules) of a program text
MaxItems == 2

\* characters that follow the opening delimiter of a string or regex literal
MaxLit == 2

\* rules Parser::parse appends to the program it builds
MaxParsed == 4

\* number of @include directives of a file
MaxDirectives == 2

\* number of components of the longest path the system opens
MaxPath == 4

\* number of expressions and statements evaluated
MaxEvals == 4

\* depth of the calls of user functions in an evaluation
MaxCalls == 1

\* number of characters of a text given to the lexer
MaxSource == 4

\* number of cache misses of RegexCache::get
MaxMisses == 66

\* ------------------------------------------------------------------------
\* State
\* ------------------------------------------------------------------------

VARIABLES
    \* --- Interpreter::run ---
    program,        \* Program::rules, each rule reduced to its pattern type
    input_files,    \* number of entries of the input_files argument of run()
    pc,             \* the position of run(): the stage it is executing
    idx,            \* loop index of the execute_*_rules loop (1-based)
    file_idx,       \* loop index of the for loop over input_files; 0 is stdin
    stream_pos,     \* records already read from the current input stream
    NR, FNR,        \* env_.NR(), env_.FNR()
    FILENAME,       \* env_.FILENAME(): 0 is "", i is the i-th input file
    \* what the run has done so far
    begin_ran,      \* indices of the BEGIN rules whose action was executed
    end_ran,        \* indices of the END rules whose action was executed
    beginfile_ran,  \* BEGINFILE rules executed for the current target
    endfile_ran,    \* ENDFILE rules executed for the current target
    sig,            \* the last control-flow exception thrown and its stage
    left,           \* how the last input target was left
    \* --- call_user_function and Environment::scope_stack_ ---
    scope_stack,    \* Environment::scope_stack_: one map of locals per scope
    frames,         \* the active invocations of call_user_function
    loops0,         \* loops the rule action itself is executing (nesting)
    running,        \* FALSE once an exception has left run()'s try block
    last_call,      \* the outermost call left by the last step
    \* --- the I/O registries of the Interpreter: target -> stream ---
    output_files_,
    input_files_,
    input_pipes_,
    output_pipes_,
    coprocesses_,
    next_id,        \* identity of the next stream that is opened
    closed_targets, \* targets close() was called for and not used since
    children,       \* streams whose child process (popen, fork) has been
                    \* started and not yet waited for
    last_io,        \* the last redirection or close() and what it did
    \* --- record and fields ---
    current_record_,     \* a string: a sequence of characters
    fields_,             \* a sequence of strings
    fields_dirty_,
    record_dirty_,
    NF,                  \* env_.NF()
    special,             \* FS, RS, OFS, ORS, OFMT, FPAT, SUBSEP in globals_
    cached,              \* cached_fs_, cached_rs_, ... of the Interpreter
    special_vars_dirty_,
    assigns,             \* assignments to special variables made so far
    obs,                 \* what the last operation read and wrote
    \* --- a rule with a range pattern ---
    range_active,        \* Pattern::range_active of the rule
    range_pc,            \* "read": a record is read next; "match": the
                         \* pattern is matched against range_record next
    range_record,        \* the record the pattern is matched against
    range_last,          \* the last evaluation of the pattern
    \* --- main() of the command line program ---
    status,              \* how the process ended and its exit status
    reported,            \* TRUE when something was written to stderr
    \* --- the files print > t and print >> t write to ---
    disk,                \* file name -> what has been written to the file:
                         \* the sequence of the outputs, each the number of
                         \* the print statement that wrote it
    writes,              \* print statements executed so far
    last_out,            \* the target and the stream of the last print
    \* --- Lexer and Parser ---
    source,              \* the program text: a sequence of top-level items
    text,                \* the characters after the opening delimiter of the
                         \* string and regex literals of the text
    pos,                 \* the item the current token of the parser is in
    errors_,             \* Parser::errors_: the line of each message
    had_error_,          \* Parser::had_error_
    panic_mode_,         \* Parser::panic_mode_
    parsed,              \* Program::rules as built by Parser::parse
    main_pc,             \* the position of main()
    \* --- @include ---
    include_files,       \* file name -> the names its @include directives give
    included,            \* the set of the included paths
    parsers,             \* the stack of the parsers, the innermost last
    splices,             \* the paths whose rules were taken over, in order
    \* --- variables, arrays and assignment ---
    globals_,            \* Environment::globals_: name -> value
    locals_,             \* Environment::scope_stack_ of the evaluation
    calls,               \* the calls of user functions that are running
    evals,               \* expressions and statements evaluated so far
    last_eval,           \* what the last evaluation did
    \* --- the lexer and its regex expectation ---
    source_,             \* Lexer::source_: a sequence of characters
    current_,            \* Lexer::current_: the next character to scan
    expect_regex_,       \* Lexer::expect_regex_
    has_peeked_,         \* Lexer::has_peeked_
    peeked_token_,       \* Lexer::peeked_token_: its type
    returned,            \* the type of the last token next_token returned
    lexer_op,            \* the last call made to the lexer
    scanned,             \* what the last call of scan_token did
    \* --- the cache of compiled regexes ---
    cache_,              \* RegexCache::cache_: the keys it holds
    misses_,             \* RegexCache::misses_
    requested,           \* the number of distinct keys requested so far
    last_get             \* what the last call of RegexCache::get did

runVars == <<program, input_files, pc, idx, file_idx, stream_pos, NR, FNR,
             FILENAME, begin_ran, end_ran, beginfile_ran, endfile_ran, sig,
             left>>

callVars == <<scope_stack, frames, loops0, running, last_call>>

ioVars == <<output_files_, input_files_, input_pipes_, output_pipes_,
           coprocesses_, next_id, closed_targets, children, last_io>>

recVars == <<current_record_, fields_, fields_dirty_, record_dirty_, NF,
            special, cached, special_vars_dirty_, assigns, obs>>

rangeVars == <<range_active, range_pc, range_record, range_last>>

mainVars == <<status, reported>>

outVars == <<disk, writes, last_out>>

parseVars == <<source, text, pos, errors_, had_error_, panic_mode_, parsed,
              main_pc>>

incVars == <<include_files, included, parsers, splices>>

evalVars == <<globals_, locals_, calls, evals, last_eval>>

lexVars == <<source_, current_, expect_regex_, has_peeked_, peeked_token_,
            returned, lexer_op, scanned>>

regexVars == <<cache_, misses_, requested, last_get>>

vars == <<runVars, callVars, ioVars, recVars, rangeVars, mainVars, outVars,
          parseVars, incVars, evalVars, lexVars, regexVars>>

\* the map with no entry
EmptyMap == [k \in {} |-> 0]

\* the variables a specification does not model keep these values
IdleRun ==
    /\ program = <<>>
    /\ input_files = 0
    /\ pc = "idle"
    /\ idx = 1
    /\ file_idx = 0
    /\ stream_pos = 0
    /\ NR = 0
    /\ FNR = 0
    /\ FILENAME = 0
    /\ begin_ran = <<>>
    /\ end_ran = <<>>
    /\ beginfile_ran = <<>>
    /\ endfile_ran = <<>>
    /\ sig = [kind |-> "none", stage |-> "none", target |-> 0,
               status |-> 0]
    /\ left = "none"

NoCall == [way |-> "none", before |-> 0, after |-> 0]

IdleCall ==
    /\ scope_stack = <<>>
    /\ frames = <<>>
    /\ loops0 = 0
    /\ running = TRUE
    /\ last_call = NoCall

NoIo == [op |-> "none", target |-> "", id |-> 0, fresh |-> FALSE,
         after_close |-> FALSE, result |-> 0]

IdleIO ==
    /\ output_files_ = EmptyMap
    /\ input_files_ = EmptyMap
    /\ input_pipes_ = EmptyMap
    /\ output_pipes_ = EmptyMap
    /\ coprocesses_ = EmptyMap
    /\ next_id = 1
    /\ closed_targets = {}
    /\ children = {}
    /\ last_io = NoIo

SpecialNames == {"FS", "RS", "OFS", "ORS", "OFMT", "FPAT", "SUBSEP"}

\* Environment::init_builtins: the values of the special variables after
\* construction ("NL" is the newline, "034" the character \034)
DefaultSpecial ==
    [FS |-> <<" ">>, RS |-> <<"NL">>, OFS |-> <<" ">>, ORS |-> <<"NL">>,
     OFMT |-> <<"%.6g">>, FPAT |-> <<>>, SUBSEP |-> <<"034">>]

\* cached_rs_, cached_fs_, ... are empty strings after construction
EmptyCache == [n \in SpecialNames |-> <<>>]

NoObs == [op |-> "none", arg |-> 0, val |-> <<>>, seen |-> <<>>,
          want |-> <<>>, used |-> {}]

IdleRec ==
    /\ current_record_ = <<>>
    /\ fields_ = <<>>
    /\ fields_dirty_ = FALSE
    /\ record_dirty_ = FALSE
    /\ NF = 0
    /\ special = DefaultSpecial
    /\ cached = EmptyCache
    /\ special_vars_dirty_ = TRUE
    /\ assigns = 0
    /\ obs = NoObs

NoEvaluation == [evaluated |-> FALSE, was_active |-> FALSE, start |-> FALSE,
                 end |-> FALSE, matches |-> FALSE]

IdleRange ==
    /\ range_active = FALSE
    /\ range_pc = "read"
    /\ range_record = <<>>
    /\ range_last = NoEvaluation

\* main() is running: the process has no exit status yet
Running == [how |-> "running", code |-> 0]

IdleMain ==
    /\ status = Running
    /\ reported = FALSE

NoOut == [target |-> "", id |-> 0]

IdleOut ==
    /\ disk = EmptyMap
    /\ writes = 0
    /\ last_out = NoOut

IdleParse ==
    /\ source = <<>>
    /\ text = <<>>
    /\ pos = 1
    /\ errors_ = <<>>
    /\ had_error_ = FALSE
    /\ panic_mode_ = FALSE
    /\ parsed = <<>>
    /\ main_pc = "idle"

IdleInc ==
    /\ include_files = EmptyMap
    /\ included = {}
    /\ parsers = <<>>
    /\ splices = <<>>

NoEval == [op |-> "none"]

IdleEval ==
    /\ globals_ = EmptyMap
    /\ locals_ = <<>>
    /\ calls = <<>>
    /\ evals = 0
    /\ last_eval = NoEval

NoScan == [char |-> "", flag |-> FALSE, type |-> "none", prev |-> "none"]

IdleLex ==
    /\ source_ = <<>>
    /\ current_ = 1
    /\ expect_regex_ = FALSE
    /\ has_peeked_ = FALSE
    /\ peeked_token_ = "none"
    /\ returned = "none"
    /\ lexer_op = "none"
    /\ scanned = NoScan

NoGet == [hit |-> FALSE, before |-> 0, evicted |-> 0, inserted |-> FALSE]

IdleRegex ==
    /\ cache_ = {}
    /\ misses_ = 0
    /\ requested = 0
    /\ last_get = NoGet

notRun == <<callVars, ioVars, recVars, rangeVars, mainVars, outVars,
            parseVars, incVars, evalVars, lexVars, regexVars>>
notCall == <<runVars, ioVars, recVars, rangeVars, mainVars, outVars,
             parseVars, incVars, evalVars, lexVars, regexVars>>
notIO == <<runVars, callVars, recVars, rangeVars, mainVars, outVars,
           parseVars, incVars, evalVars, lexVars, regexVars>>
notOut == <<runVars, callVars, recVars, rangeVars, mainVars, parseVars,
            incVars, evalVars, lexVars, regexVars>>
notParse == <<callVars, ioVars, recVars, rangeVars, outVars, incVars,
            evalVars, lexVars, regexVars>>
notInc == <<runVars, callVars, ioVars, recVars, rangeVars, mainVars, outVars,
            parseVars, evalVars, lexVars, regexVars>>
notEval == <<runVars, callVars, ioVars, recVars, rangeVars, mainVars,
             outVars, parseVars, incVars, lexVars, regexVars>>
notLex == <<runVars, callVars, ioVars, recVars, rangeVars, mainVars, outVars,
            parseVars, incVars, evalVars, regexVars>>
notRegex == <<runVars, callVars, ioVars, recVars, rangeVars, mainVars,
              outVars, parseVars, incVars, evalVars, lexVars>>
notRec == <<callVars, ioVars, rangeVars, mainVars, outVars, parseVars,
            program, input_files, pc, idx,
            file_idx, stream_pos, FILENAME, begin_ran, end_ran, beginfile_ran,
            endfile_ran, sig, left, incVars, evalVars, lexVars, regexVars>>
notRange == <<runVars, callVars, ioVars, recVars, mainVars, outVars,
             parseVars, incVars, evalVars, lexVars, regexVars>>

\* ------------------------------------------------------------------------
\* Interpreter::run  (src/src/interpreter.cpp)
\* ------------------------------------------------------------------------

\* PatternType (ast.hpp); MAIN stands for EXPRESSION, REGEX, RANGE and EMPTY,
\* the types execute_main_rules does not skip
PatternTypes == {"BEGIN", "END", "BEGINFILE", "ENDFILE", "MAIN"}

\* the ways the execution of an action ends: normally or by one of the
\* control flow exceptions of interpreter.hpp
Signals == {"exit", "next", "nextfile", "break", "continue", "return"}

Outcomes == {"normal"} \cup Signals

Programs == [1..MaxRules -> PatternTypes]

NoSig == [kind |-> "none", stage |-> "none", target |-> 0, status |-> 0]

\* the values of N in `exit N`; `exit` without an expression throws
\* ExitException(0) (interpreter_exec.cpp:46-51)
ExitValues == 0..MaxStatus

\* the indices of the rules of type t, in source order
RECURSIVE RulesFrom(_, _, _)
RulesFrom(p, t, i) ==
    IF i > Len(p) THEN <<>>
    ELSE IF p[i] = t THEN <<i>> \o RulesFrom(p, t, i + 1)
    ELSE RulesFrom(p, t, i + 1)

RulesOf(t) == RulesFrom(program, t, 1)

InitRun ==
    /\ program \in Programs
    /\ input_files \in 0..MaxFiles
    /\ pc = "begin"
    /\ idx = 1
    /\ file_idx = 0
    /\ stream_pos = 0
    /\ NR = 0
    /\ FNR = 0
    /\ FILENAME = 0
    /\ begin_ran = <<>>
    /\ end_ran = <<>>
    /\ beginfile_ran = <<>>
    /\ endfile_ran = <<>>
    /\ sig = NoSig
    /\ left = "none"
    /\ IdleCall
    /\ IdleIO
    /\ IdleRec
    /\ IdleRange
    /\ IdleMain
    /\ IdleRegex
    /\ IdleLex
    /\ IdleEval
    /\ IdleInc
    /\ IdleParse
    /\ IdleOut

\* CatchPoint with NextException caught below every stage: the next stage
\* follows as if the rules of the stage were finished
CatchPoint_next_caught_everywhere(kind, stage) ==
    CASE kind = "exit" -> "cleanup"
      [] kind = "next" /\ stage = "begin" -> "open"
      [] kind = "next" /\ stage = "end" -> "cleanup"
      [] kind = "next" -> "read"
      [] kind = "nextfile" /\ stage \in {"beginfile", "main", "endfile"}
                           /\ file_idx > 0 -> "open"
      [] OTHER -> "uncaught"

\* CatchPoint with NextException caught by run() like ExitException
CatchPoint_next_stops(kind, stage) ==
    CASE kind \in {"exit", "next"} -> "cleanup"
      [] kind = "nextfile" /\ stage \in {"beginfile", "main", "endfile"}
                           /\ file_idx > 0 -> "open"
      [] OTHER -> "uncaught"

\* CatchPoint with an ExitException of an END rule caught before
\* execute_end_rules, which is then called again
CatchPoint_exit_reruns_end(kind, stage) ==
    CASE kind = "exit" /\ stage = "end" -> "end"
      [] kind = "exit" -> "cleanup"
      [] kind = "next" /\ stage = "main" -> "read"
      [] kind = "nextfile" /\ stage \in {"beginfile", "main", "endfile"}
                           /\ file_idx > 0 -> "open"
      [] OTHER -> "uncaught"

\* Where a control-flow exception thrown by an action in `stage` lands.
\*   ExitException      caught by run() (line 133): cleanup_io follows
\*   NextException      caught by process_stream (line 165): next record
\*   NextfileException  caught by the for loop of run() (line 123), which
\*                      encloses process_file only: next input file
\*   anything else leaves run() by the exception
CatchPoint(kind, stage) ==
    CASE kind = "exit" -> "cleanup"
      [] kind = "next" /\ stage = "main" -> "read"
      [] kind = "nextfile" /\ stage \in {"beginfile", "main", "endfile"}
                           /\ file_idx > 0 -> "open"
      [] OTHER -> "uncaught"

\* the effect of an action of a rule in `stage` that ends with `o`
Execute(stage, o) ==
    IF o = "normal"
    THEN /\ idx' = idx + 1
         /\ UNCHANGED <<pc, file_idx, sig, left>>
    ELSE /\ \E n \in (IF o = "exit" THEN ExitValues ELSE {0}) :
              sig' = [kind |-> o, stage |-> stage, target |-> file_idx,
                      status |-> n]
         /\ pc' = CatchPoint(o, stage)
         /\ idx' = 1
         /\ file_idx' = IF CatchPoint(o, stage) = "open"
                        THEN file_idx + 1 ELSE file_idx
         /\ left' = IF stage \in {"beginfile", "main", "endfile"}
                       /\ CatchPoint(o, stage) # "read"
                    THEN o ELSE left

\* one iteration of the loop of execute_begin_rules
execute_begin_rules ==
    /\ pc = "begin"
    /\ idx <= Len(program)
    /\ IF program[idx] = "BEGIN"
       THEN /\ begin_ran' = Append(begin_ran, idx)
            /\ \E o \in Outcomes : Execute("begin", o)
       ELSE /\ idx' = idx + 1
            /\ UNCHANGED <<pc, file_idx, sig, left, begin_ran>>
    /\ UNCHANGED notRun
    /\ UNCHANGED <<program, input_files, stream_pos, NR, FNR, FILENAME,
                   end_ran, beginfile_ran, endfile_ran>>

\* run(), lines 115-120: after the BEGIN rules, standard input is read when
\* no input file is given (FILENAME is set, process_stream is called
\* directly); otherwise the loop over the input files starts
run_process_input ==
    /\ pc = "begin"
    /\ idx > Len(program)
    /\ IF input_files = 0
       THEN /\ FILENAME' = 0
            /\ pc' = "read"
            /\ file_idx' = 0
       ELSE /\ pc' = "open"
            /\ file_idx' = 1
            /\ UNCHANGED FILENAME
    /\ idx' = 1
    /\ stream_pos' = 0
    /\ UNCHANGED notRun
    /\ UNCHANGED <<program, input_files, NR, FNR, begin_ran, end_ran,
                   beginfile_ran, endfile_ran, sig, left>>

\* process_file up to the call of execute_beginfile_rules, or the end of the
\* loop over the input files (then execute_end_rules is next)
process_file ==
    /\ pc = "open"
    /\ IF file_idx > input_files
       THEN /\ pc' = "end"
            /\ idx' = 1
            /\ UNCHANGED <<file_idx, stream_pos, FNR, FILENAME, beginfile_ran,
                           endfile_ran, left>>
       ELSE \E ok \in BOOLEAN :
              IF ok
              THEN /\ FILENAME' = file_idx
                   /\ FNR' = 0
                   /\ stream_pos' = 0
                   /\ pc' = "beginfile"
                   /\ idx' = 1
                   /\ beginfile_ran' = <<>>
                   /\ endfile_ran' = <<>>
                   /\ left' = "none"
                   /\ UNCHANGED file_idx
              ELSE \* "can't open file": process_file returns
                   /\ file_idx' = file_idx + 1
                   /\ left' = "openfail"
                   /\ UNCHANGED <<pc, idx, stream_pos, FNR, FILENAME,
                                  beginfile_ran, endfile_ran>>
    /\ UNCHANGED notRun
    /\ UNCHANGED <<program, input_files, NR, begin_ran, end_ran, sig>>

\* one iteration of the loop of execute_beginfile_rules; after the last one
\* process_file calls process_stream
execute_beginfile_rules ==
    /\ pc = "beginfile"
    /\ IF idx > Len(program)
       THEN /\ pc' = "read"
            /\ idx' = 1
            /\ UNCHANGED <<file_idx, sig, left, beginfile_ran>>
       ELSE IF program[idx] = "BEGINFILE"
       THEN /\ beginfile_ran' = Append(beginfile_ran, idx)
            /\ \E o \in Outcomes : Execute("beginfile", o)
       ELSE /\ idx' = idx + 1
            /\ UNCHANGED <<pc, file_idx, sig, left, beginfile_ran>>
    /\ UNCHANGED notRun
    /\ UNCHANGED <<program, input_files, stream_pos, NR, FNR, FILENAME,
                   begin_ran, end_ran, endfile_ran>>

\* read_record as called by the loop of process_stream: a record is read and
\* NR, FNR are incremented, or the stream is at its end
process_stream ==
    /\ pc = "read"
    /\ \E success \in BOOLEAN :
         IF success
         THEN /\ stream_pos < MaxRecs
              /\ stream_pos' = stream_pos + 1
              /\ NR' = NR + 1
              /\ FNR' = FNR + 1
              /\ pc' = "main"
              /\ idx' = 1
              /\ UNCHANGED left
         ELSE \* process_stream returns: to process_file, or to run()
              /\ pc' = IF file_idx > 0 THEN "endfile" ELSE "end"
              /\ idx' = 1
              /\ left' = "eof"
              /\ UNCHANGED <<stream_pos, NR, FNR>>
    /\ UNCHANGED notRun
    /\ UNCHANGED <<program, input_files, file_idx, FILENAME, begin_ran,
                   end_ran, beginfile_ran, endfile_ran, sig>>

\* one iteration of the loop of execute_main_rules; the pattern of a main
\* rule matches the record or not
execute_main_rules ==
    /\ pc = "main"
    /\ IF idx > Len(program)
       THEN /\ pc' = "read"
            /\ idx' = 1
            /\ UNCHANGED <<file_idx, sig, left>>
       ELSE IF program[idx] = "MAIN"
       THEN \E matches \in BOOLEAN :
              IF matches
              THEN \E o \in Outcomes : Execute("main", o)
              ELSE /\ idx' = idx + 1
                   /\ UNCHANGED <<pc, file_idx, sig, left>>
       ELSE /\ idx' = idx + 1
            /\ UNCHANGED <<pc, file_idx, sig, left>>
    /\ UNCHANGED notRun
    /\ UNCHANGED <<program, input_files, stream_pos, NR, FNR, FILENAME,
                   begin_ran, end_ran, beginfile_ran, endfile_ran>>

\* one iteration of the loop of execute_endfile_rules; after the last one
\* process_file returns and the loop of run() takes the next file
execute_endfile_rules ==
    /\ pc = "endfile"
    /\ IF idx > Len(program)
       THEN /\ pc' = "open"
            /\ idx' = 1
            /\ file_idx' = file_idx + 1
            /\ UNCHANGED <<sig, left, endfile_ran>>
       ELSE IF program[idx] = "ENDFILE"
       THEN /\ endfile_ran' = Append(endfile_ran, idx)
            /\ \E o \in Outcomes : Execute("endfile", o)
       ELSE /\ idx' = idx + 1
            /\ UNCHANGED <<pc, file_idx, sig, left, endfile_ran>>
    /\ UNCHANGED notRun
    /\ UNCHANGED <<program, input_files, stream_pos, NR, FNR, FILENAME,
                   begin_ran, end_ran, beginfile_ran>>

\* one iteration of the loop of execute_end_rules; after the last one run()
\* leaves its try block
execute_end_rules ==
    /\ pc = "end"
    /\ IF idx > Len(program)
       THEN /\ pc' = "cleanup"
            /\ idx' = 1
            /\ UNCHANGED <<file_idx, sig, left, end_ran>>
       ELSE IF program[idx] = "END"
       THEN /\ end_ran' = Append(end_ran, idx)
            /\ \E o \in Outcomes : Execute("end", o)
       ELSE /\ idx' = idx + 1
            /\ UNCHANGED <<pc, file_idx, sig, left, end_ran>>
    /\ UNCHANGED notRun
    /\ UNCHANGED <<program, input_files, stream_pos, NR, FNR, FILENAME,
                   begin_ran, beginfile_ran, endfile_ran>>

\* run(), lines 138-141: cleanup_io and return
run_cleanup ==
    /\ pc = "cleanup"
    /\ pc' = "done"
    /\ UNCHANGED notRun
    /\ UNCHANGED <<program, input_files, idx, file_idx, stream_pos, NR, FNR,
                   FILENAME, begin_ran, end_ran, beginfile_ran, endfile_ran,
                   sig, left>>

\* main(), lines 177-183: run() has returned, no std::exception was thrown:
\* `return 0`
main_return ==
    /\ pc = "done"
    /\ pc' = "exited"
    /\ status' = [how |-> "returned", code |-> 0]
    /\ UNCHANGED reported
    /\ UNCHANGED <<callVars, ioVars, recVars, rangeVars, outVars, parseVars,
                   incVars, evalVars, lexVars, regexVars>>
    /\ UNCHANGED <<program, input_files, idx, file_idx, stream_pos, NR, FNR,
                   FILENAME, begin_ran, end_ran, beginfile_ran, endfile_ran,
                   sig, left>>

\* A control-flow exception has left run(). The exception types of
\* interpreter.hpp (lines 232-243) are not derived from std::exception, so
\* the handler of main() (line 179) does not match and no handler is found:
\* std::terminate is called, the process is aborted and cleanup_io() is never
\* reached. The interpreter writes nothing; whether the terminate handler of
\* the C++ runtime writes a line to stderr depends on the runtime library.
main_terminate ==
    /\ pc = "uncaught"
    /\ pc' = "aborted"
    /\ status' = [how |-> "aborted", code |-> 0]
    /\ reported' \in BOOLEAN
    /\ UNCHANGED <<callVars, ioVars, recVars, rangeVars, outVars, parseVars,
                   incVars, evalVars, lexVars, regexVars>>
    /\ UNCHANGED <<program, input_files, idx, file_idx, stream_pos, NR, FNR,
                   FILENAME, begin_ran, end_ran, beginfile_ran, endfile_ran,
                   sig, left>>

NextRun ==
    \/ execute_begin_rules
    \/ run_process_input
    \/ process_file
    \/ execute_beginfile_rules
    \/ process_stream
    \/ execute_main_rules
    \/ execute_endfile_rules
    \/ execute_end_rules
    \/ run_cleanup
    \/ main_return
    \/ main_terminate

SpecRun == InitRun /\ [][NextRun]_vars

\* run() is at cleanup_io or behind it
Closing == {"cleanup", "done", "exited"}

\* C1: when `exit` executed in a BEGIN, BEGINFILE, ENDFILE or main rule, no
\* further BEGIN rule, record or input file is processed, and by the time
\* run() closes the streams every END rule has been executed, in source order.
C1_ExitRunsEndRules ==
    sig.kind = "exit" /\ sig.stage \in {"begin", "beginfile", "endfile", "main"}
        => /\ pc \in {"end"} \cup Closing
           /\ pc \in Closing => end_ran = RulesOf("END")

\* C2: when `nextfile` executed in a main rule on a record of input file f,
\* no further record of f is read, and when processing goes on with the next
\* input target every ENDFILE rule has been run for f.
C2_NextfileRunsEndfile ==
    sig.kind = "nextfile" /\ sig.stage = "main" /\ left = "nextfile"
        => /\ pc \notin {"read", "main"}
           /\ pc = "open" => /\ file_idx = sig.target + 1
                             /\ endfile_ran = RulesOf("ENDFILE")

\* C10: for every input target, standard input included, the first record is
\* processed with FILENAME set, FNR counted from 0 and every BEGINFILE rule
\* run, and once its last record is behind every ENDFILE rule has run.
C10_TargetProtocol ==
    /\ pc = "main" => /\ FILENAME = file_idx
                      /\ FNR = stream_pos
                      /\ beginfile_ran = RulesOf("BEGINFILE")
    /\ left = "eof" /\ pc \in {"open", "end"}
          => endfile_ran = RulesOf("ENDFILE")

\* the first n elements of a sequence
Prefix(q, n) == SubSeq(q, 1, n)

\* the stages of run() that follow execute_begin_rules
AfterBegin == {"open", "beginfile", "read", "main", "endfile", "end",
               "cleanup", "done", "exited"}

C12_NextResumes ==
    [][/\ (pc = "main" /\ idx <= Len(program) /\ idx' = 1
              /\ sig'.kind = "next")
          => /\ pc' = "read"
             /\ NR' = NR
             /\ stream_pos' = stream_pos
             /\ file_idx' = file_idx
       /\ (pc = "read" /\ sig.kind = "next" /\ sig.stage = "main")
          => \/ pc' = "main" /\ idx' = 1 /\ NR' = NR + 1
             \/ pc' \in {"endfile", "end"} /\ NR' = NR
       /\ (pc = "end" /\ pc' = "cleanup" /\ sig' = sig /\ sig.kind = "next"
              /\ sig.stage = "main")
          => end_ran = RulesOf("END")
      ]_vars

\* `next` ended the rules of the first record, the second record was
\* processed and the END rule executed
C12_Witness ==
    /\ sig.kind = "next"
    /\ sig.stage = "main"
    /\ pc = "done"
    /\ NR = 2
    /\ end_ran # <<>>

C14_ExitStatus ==
    pc = "exited"
        => /\ status.how = "returned"
           /\ status.code = IF sig.kind = "exit" THEN sig.status ELSE 0

\* C15: a break, continue, next, nextfile or return signal that no catch
\* point encloses never ends the interpreter without a report on stderr.
C15_UncaughtReported ==
    pc = "aborted" => reported

\* ------------------------------------------------------------------------
\* call_user_function and the scope stack
\* (src/src/interpreter.cpp, src/src/environment.cpp)
\* The calls are made from the action of a main rule of an input file, so
\* next, nextfile and exit have a catch point below the rule.
\* ------------------------------------------------------------------------

Values == {1}

Uninit == "uninit"

\* FunctionDef::parameters of the user functions of the program
Parameters == [f |-> <<"a">>, g |-> <<"a", "b">>]

FunctionNames == DOMAIN Parameters

\* argument vectors: fewer, as many or more values than parameters
ArgVectors == {<<>>} \cup {<<v>> : v \in Values}
                     \cup {<<v, w>> : v \in Values, w \in Values}
                     \cup {<<u, v, w>> : u \in Values, v \in Values,
                                         w \in Values}

InitCall ==
    /\ IdleRun
    /\ IdleCall
    /\ IdleIO
    /\ IdleRec
    /\ IdleRange
    /\ IdleMain
    /\ IdleRegex
    /\ IdleLex
    /\ IdleEval
    /\ IdleInc
    /\ IdleParse
    /\ IdleOut

\* Environment::push_scope
push_scope(st) == Append(st, EmptyMap)

\* Environment::pop_scope
pop_scope(st) == IF st # <<>> THEN SubSeq(st, 1, Len(st) - 1) ELSE st

\* Environment::set_local on a scope stack that is not empty
set_local(st, name, value) ==
    [st EXCEPT ![Len(st)] =
        [n \in (DOMAIN st[Len(st)]) \cup {name} |->
            IF n = name THEN value ELSE st[Len(st)][n]]]

\* the loop of call_user_function that binds the parameters
RECURSIVE BindParameters(_, _, _, _)
BindParameters(st, params, args, i) ==
    IF i > Len(params) THEN st
    ELSE BindParameters(
             set_local(st, params[i],
                       IF i <= Len(args) THEN args[i] ELSE Uninit),
             params, args, i + 1)

\* loops the context k is executing: 0 is the rule action, k > 0 a frame
LoopsAt(k) == IF k = 0 THEN loops0 ELSE frames[k].loops

\* The number of frames that remain once the exception `kind` is caught, or
\* -1 when nothing catches it below run()'s ExitException handler.
\*   ReturnException: the try block of the innermost call_user_function
\*   Break/Continue:  the innermost executing loop (interpreter_exec.cpp)
\*   Next, Nextfile, Exit: process_stream, the file loop of run(), run()
CatchDepth(kind) ==
    CASE kind = "return" -> Len(frames) - 1
      [] kind \in {"break", "continue"} ->
            IF \E k \in 0..Len(frames) : LoopsAt(k) > 0
            THEN CHOOSE k \in 0..Len(frames) :
                    /\ LoopsAt(k) > 0
                    /\ \A j \in (k + 1)..Len(frames) : LoopsAt(j) = 0
            ELSE -1
      [] OTHER -> 0

\* call_user_function, lines 1133-1151: push the scope, bind the parameters
\* and start executing the body
call_user_function ==
    /\ running
    /\ Len(frames) < MaxDepth
    /\ Len(scope_stack) < MaxScopes
    /\ \E f \in FunctionNames, args \in ArgVectors :
         /\ scope_stack' = BindParameters(push_scope(scope_stack),
                                          Parameters[f], args, 1)
         /\ frames' = Append(frames, [func |-> f, loops |-> 0,
                                      base |-> Len(scope_stack)])
    /\ UNCHANGED <<loops0, running, last_call>>
    /\ UNCHANGED notCall

\* the body reaches its end: call_user_function, lines 1156-1157
function_end ==
    /\ running
    /\ frames # <<>>
    /\ frames[Len(frames)].loops = 0
    /\ scope_stack' = pop_scope(scope_stack)
    /\ frames' = SubSeq(frames, 1, Len(frames) - 1)
    /\ last_call' = [way |-> "end", before |-> frames[Len(frames)].base,
                     after |-> Len(pop_scope(scope_stack))]
    /\ UNCHANGED <<loops0, running>>
    /\ UNCHANGED notCall

\* the body of a while, do, for or for-in statement is entered
loop_enter ==
    /\ running
    /\ LoopsAt(Len(frames)) < MaxLoops
    /\ IF frames = <<>>
       THEN loops0' = loops0 + 1 /\ UNCHANGED frames
       ELSE /\ frames' = [frames EXCEPT ![Len(frames)].loops = @ + 1]
            /\ UNCHANGED loops0
    /\ UNCHANGED <<scope_stack, running, last_call>>
    /\ UNCHANGED notCall

\* the condition of the innermost loop becomes false
loop_leave ==
    /\ running
    /\ LoopsAt(Len(frames)) > 0
    /\ IF frames = <<>>
       THEN loops0' = loops0 - 1 /\ UNCHANGED frames
       ELSE /\ frames' = [frames EXCEPT ![Len(frames)].loops = @ - 1]
            /\ UNCHANGED loops0
    /\ UNCHANGED <<scope_stack, running, last_call>>
    /\ UNCHANGED notCall

\* execute(Stmt&), lines 38-58: a break, continue, next, nextfile, exit or
\* return statement throws; the stack unwinds to the catch point.  Only the
\* ReturnException handler of call_user_function is followed by pop_scope.
throw_signal ==
    /\ running
    /\ \E kind \in Signals :
         LET k == CatchDepth(kind)
             kept == IF k < 0 THEN 0 ELSE k
             st == IF kind = "return" /\ k >= 0
                   THEN pop_scope(scope_stack) ELSE scope_stack
             fr == SubSeq(frames, 1, kept)
         IN /\ scope_stack' = st
            /\ frames' = IF kind = "break" /\ k > 0
                         THEN [fr EXCEPT ![k].loops = @ - 1] ELSE fr
            /\ loops0' = IF kind \in {"next", "nextfile", "exit"} \/ k < 0
                         THEN 0
                         ELSE IF kind = "break" /\ k = 0 THEN loops0 - 1
                         ELSE loops0
            /\ running' = (k >= 0 /\ kind # "exit")
            /\ last_call' = IF kept < Len(frames)
                            THEN [way |-> kind,
                                  before |-> frames[kept + 1].base,
                                  after |-> Len(st)]
                            ELSE last_call
    /\ UNCHANGED notCall

NextCall ==
    \/ call_user_function
    \/ function_end
    \/ loop_enter
    \/ loop_leave
    \/ throw_signal

SpecCall == InitCall /\ [][NextCall]_vars

\* C3: whichever way the body of a user function is left, the scope pushed
\* for the call is popped: the depth of the scope stack after the call is
\* its depth before the call.
C3_ScopePopped ==
    last_call.way # "none" => last_call.after = last_call.before

\* ------------------------------------------------------------------------
\* The I/O registries  (src/src/interpreter.cpp, interpreter_getline.cpp,
\* interpreter_coprocess.cpp)
\* ------------------------------------------------------------------------

\* target strings the program uses
Targets == {"f", "__coproc__f", "-"}

\* the key of the output stream of a coprocess in output_pipes_
CoprocKey(t) == "__coproc__" \o t

\* "/dev/stdout", "-", "/dev/stderr", "/dev/null" of get_output_stream
SpecialOutput == {"/dev/stdout", "-", "/dev/stderr", "/dev/null"}

\* "/dev/stdin", "-" of get_input_file
SpecialInput == {"/dev/stdin", "-"}

Put(m, k, v) == [x \in (DOMAIN m) \cup {k} |-> IF x = k THEN v ELSE m[x]]

Erase(m, k) == [x \in (DOMAIN m) \ {k} |-> m[x]]

InitIO ==
    /\ IdleRun
    /\ IdleCall
    /\ IdleIO
    /\ IdleRec
    /\ IdleRange
    /\ IdleMain
    /\ IdleRegex
    /\ IdleLex
    /\ IdleEval
    /\ IdleInc
    /\ IdleParse
    /\ IdleOut

\* what a redirection to or from target t leaves in last_io
Used(op, t, id, fresh) ==
    [op |-> op, target |-> t, id |-> id, fresh |-> fresh,
     after_close |-> t \in closed_targets, result |-> 0]

\* popen and fork start a child process for the stream they open; the
\* stream opened by a step, if any, has the identity next_id
Started == IF next_id' # next_id THEN {next_id} ELSE {}

\* the streams a registry holds
StreamsOf(m) == {m[k] : k \in DOMAIN m}

\* get_output_stream, lines 1076-1095: print > t and print >> t
print_file ==
    /\ \E t \in Targets, ok \in BOOLEAN :
         /\ IF t \in SpecialOutput
            THEN /\ last_io' = Used("print_file", t, 0, FALSE)
                 /\ UNCHANGED <<output_files_, next_id>>
            ELSE IF t \in DOMAIN output_files_
            THEN /\ last_io' = Used("print_file", t, output_files_[t], FALSE)
                 /\ UNCHANGED <<output_files_, next_id>>
            ELSE IF ok /\ next_id <= MaxOpens
            THEN /\ output_files_' = Put(output_files_, t, next_id)
                 /\ next_id' = next_id + 1
                 /\ last_io' = Used("print_file", t, next_id, TRUE)
            ELSE \* "can't open file ... for output"
                 /\ last_io' = Used("print_file", t, 0, FALSE)
                 /\ UNCHANGED <<output_files_, next_id>>
         /\ closed_targets' = closed_targets \ {t}
    /\ UNCHANGED <<input_files_, input_pipes_, output_pipes_, coprocesses_>>
    /\ UNCHANGED children
    /\ UNCHANGED notIO

\* get_output_stream, lines 1030-1053: print | t
print_pipe ==
    /\ \E t \in Targets, ok \in BOOLEAN :
         /\ IF t \in SpecialOutput
            THEN /\ last_io' = Used("print_pipe", t, 0, FALSE)
                 /\ UNCHANGED <<output_pipes_, next_id>>
            ELSE IF t \in DOMAIN output_pipes_
            THEN /\ last_io' = Used("print_pipe", t, output_pipes_[t], FALSE)
                 /\ UNCHANGED <<output_pipes_, next_id>>
            ELSE IF ok /\ next_id <= MaxOpens
            THEN /\ output_pipes_' = Put(output_pipes_, t, next_id)
                 /\ next_id' = next_id + 1
                 /\ last_io' = Used("print_pipe", t, next_id, TRUE)
            ELSE \* "can't open pipe to command"
                 /\ last_io' = Used("print_pipe", t, 0, FALSE)
                 /\ UNCHANGED <<output_pipes_, next_id>>
         /\ closed_targets' = closed_targets \ {t}
    /\ UNCHANGED <<output_files_, input_files_, input_pipes_, coprocesses_>>
    /\ children' = children \cup Started
    /\ UNCHANGED notIO

\* get_output_stream, lines 1055-1074, with get_or_create_coprocess:
\* print |& t.  The coprocess is found or started, then its output stream
\* is found or created under the key "__coproc__" + t.
print_coprocess ==
    /\ \E t \in Targets, ok \in BOOLEAN :
         /\ IF t \in SpecialOutput
            THEN /\ last_io' = Used("print_coprocess", t, 0, FALSE)
                 /\ UNCHANGED <<output_pipes_, coprocesses_, next_id>>
            ELSE IF t \in DOMAIN coprocesses_
            THEN /\ UNCHANGED coprocesses_
                 /\ IF CoprocKey(t) \in DOMAIN output_pipes_
                    THEN UNCHANGED <<output_pipes_, next_id>>
                    ELSE /\ output_pipes_' =
                                Put(output_pipes_, CoprocKey(t), coprocesses_[t])
                         /\ UNCHANGED next_id
                 /\ last_io' = Used("print_coprocess", t, coprocesses_[t],
                                    FALSE)
            ELSE IF ok /\ next_id <= MaxOpens
            THEN /\ coprocesses_' = Put(coprocesses_, t, next_id)
                 /\ IF CoprocKey(t) \in DOMAIN output_pipes_
                    THEN UNCHANGED output_pipes_
                    ELSE output_pipes_' =
                            Put(output_pipes_, CoprocKey(t), next_id)
                 /\ next_id' = next_id + 1
                 /\ last_io' = Used("print_coprocess", t, next_id, TRUE)
            ELSE \* "can't open coprocess to command"
                 /\ last_io' = Used("print_coprocess", t, 0, FALSE)
                 /\ UNCHANGED <<output_pipes_, coprocesses_, next_id>>
         /\ closed_targets' = closed_targets \ {t}
    /\ UNCHANGED <<output_files_, input_files_, input_pipes_>>
    /\ children' = children \cup Started
    /\ UNCHANGED notIO

\* get_input_file: getline < t
getline_file ==
    /\ \E t \in Targets, ok \in BOOLEAN :
         /\ IF t \in SpecialInput
            THEN /\ last_io' = Used("getline_file", t, 0, FALSE)
                 /\ UNCHANGED <<input_files_, next_id>>
            ELSE IF t \in DOMAIN input_files_
            THEN /\ last_io' = Used("getline_file", t, input_files_[t], FALSE)
                 /\ UNCHANGED <<input_files_, next_id>>
            ELSE IF ok /\ next_id <= MaxOpens
            THEN /\ input_files_' = Put(input_files_, t, next_id)
                 /\ next_id' = next_id + 1
                 /\ last_io' = Used("getline_file", t, next_id, TRUE)
            ELSE \* "can't open file ... for reading"
                 /\ last_io' = Used("getline_file", t, 0, FALSE)
                 /\ UNCHANGED <<input_files_, next_id>>
         /\ closed_targets' = closed_targets \ {t}
    /\ UNCHANGED <<output_files_, input_pipes_, output_pipes_, coprocesses_>>
    /\ UNCHANGED children
    /\ UNCHANGED notIO

\* get_input_pipe: t | getline
getline_pipe ==
    /\ \E t \in Targets, ok \in BOOLEAN :
         /\ IF t \in DOMAIN input_pipes_
            THEN /\ last_io' = Used("getline_pipe", t, input_pipes_[t], FALSE)
                 /\ UNCHANGED <<input_pipes_, next_id>>
            ELSE IF ok /\ next_id <= MaxOpens
            THEN /\ input_pipes_' = Put(input_pipes_, t, next_id)
                 /\ next_id' = next_id + 1
                 /\ last_io' = Used("getline_pipe", t, next_id, TRUE)
            ELSE \* "can't open pipe from command"
                 /\ last_io' = Used("getline_pipe", t, 0, FALSE)
                 /\ UNCHANGED <<input_pipes_, next_id>>
         /\ closed_targets' = closed_targets \ {t}
    /\ UNCHANGED <<output_files_, input_files_, output_pipes_, coprocesses_>>
    /\ children' = children \cup Started
    /\ UNCHANGED notIO

\* getline_from_coprocess with get_or_create_coprocess: t |& getline
getline_coprocess ==
    /\ \E t \in Targets, ok \in BOOLEAN :
         /\ IF t \in DOMAIN coprocesses_
            THEN /\ last_io' = Used("getline_coprocess", t, coprocesses_[t],
                                    FALSE)
                 /\ UNCHANGED <<coprocesses_, next_id>>
            ELSE IF ok /\ next_id <= MaxOpens
            THEN /\ coprocesses_' = Put(coprocesses_, t, next_id)
                 /\ next_id' = next_id + 1
                 /\ last_io' = Used("getline_coprocess", t, next_id, TRUE)
            ELSE /\ last_io' = Used("getline_coprocess", t, 0, FALSE)
                 /\ UNCHANGED <<coprocesses_, next_id>>
         /\ closed_targets' = closed_targets \ {t}
    /\ UNCHANGED <<output_files_, input_files_, input_pipes_, output_pipes_>>
    /\ children' = children \cup Started
    /\ UNCHANGED notIO

\* some registry has an entry keyed by t
Held(t) ==
    \/ t \in DOMAIN output_files_
    \/ t \in DOMAIN input_files_
    \/ t \in DOMAIN input_pipes_
    \/ t \in DOMAIN output_pipes_
    \/ t \in DOMAIN coprocesses_

\* the builtin close(t): close_file, which returns at the first registry
\* that holds t, and close_coprocess
close_file ==
    /\ \E t \in Targets :
         /\ IF t \in DOMAIN output_files_
            THEN /\ output_files_' = Erase(output_files_, t)
                 /\ UNCHANGED <<input_files_, input_pipes_, output_pipes_,
                                coprocesses_, children>>
            ELSE IF t \in DOMAIN input_files_
            THEN /\ input_files_' = Erase(input_files_, t)
                 /\ UNCHANGED <<output_files_, input_pipes_, output_pipes_,
                                coprocesses_, children>>
            ELSE IF t \in DOMAIN input_pipes_
            THEN \* pclose waits for the child
                 /\ input_pipes_' = Erase(input_pipes_, t)
                 /\ children' = children \ {input_pipes_[t]}
                 /\ UNCHANGED <<output_files_, input_files_, output_pipes_,
                                coprocesses_>>
            ELSE IF t \in DOMAIN output_pipes_
            THEN \* close_pipe: pclose waits for the child of a stream
                 \* that popen opened; the stream of a coprocess kept under
                 \* this key has no child of its own
                 /\ output_pipes_' = Erase(output_pipes_, t)
                 /\ children' = children \ ({output_pipes_[t]}
                                               \ StreamsOf(coprocesses_))
                 /\ UNCHANGED <<output_files_, input_files_, input_pipes_,
                                coprocesses_>>
            ELSE IF t \in DOMAIN coprocesses_
            THEN \* close_coprocess: Coprocess::close calls waitpid
                 /\ output_pipes_' = Erase(output_pipes_, CoprocKey(t))
                 /\ coprocesses_' = Erase(coprocesses_, t)
                 /\ children' = children \ {coprocesses_[t]}
                 /\ UNCHANGED <<output_files_, input_files_, input_pipes_>>
            ELSE UNCHANGED <<output_files_, input_files_, input_pipes_,
                             output_pipes_, coprocesses_, children>>
         /\ last_io' = [op |-> "close", target |-> t, id |-> 0,
                        fresh |-> FALSE, after_close |-> FALSE,
                        result |-> IF Held(t) THEN 0 ELSE -1]
         /\ closed_targets' = IF Held(t) THEN closed_targets \cup {t}
                               ELSE closed_targets
    /\ UNCHANGED next_id
    /\ UNCHANGED notIO

\* cleanup_io at the end of run(): every registry is cleared. The input
\* pipes are closed with pclose and ~Coprocess calls Coprocess::close, both
\* of which wait for the child. output_pipes_.clear() destroys the
\* PipeOStream objects, whose PipeStreamBuf destructor (interpreter.hpp:84)
\* only calls sync(): pclose is not called for them.
cleanup_io ==
    /\ output_files_' = EmptyMap
    /\ input_files_' = EmptyMap
    /\ input_pipes_' = EmptyMap
    /\ output_pipes_' = EmptyMap
    /\ coprocesses_' = EmptyMap
    /\ children' = children \ (StreamsOf(input_pipes_)
                                  \cup StreamsOf(coprocesses_))
    /\ last_io' = [NoIo EXCEPT !.op = "cleanup"]
    /\ UNCHANGED <<next_id, closed_targets>>
    /\ UNCHANGED notIO

NextIO ==
    \/ print_file
    \/ print_pipe
    \/ print_coprocess
    \/ getline_file
    \/ getline_pipe
    \/ getline_coprocess
    \/ close_file
    \/ cleanup_io

SpecIO == InitIO /\ [][NextIO]_vars

\* C4: after close(t) of an opened target t has returned no registry holds
\* an entry keyed by t, and the next use of t creates a fresh entry.
C4_CloseRemovesTarget ==
    /\ last_io.op = "close" /\ last_io.result = 0 => ~Held(last_io.target)
    /\ last_io.after_close /\ last_io.id # 0 => last_io.fresh

\* C16: when run() returns, cleanup_io has left every I/O registry empty and
\* every child process started for an input pipe, an output pipe or a
\* coprocess has been closed and waited for.
C16_CleanupReleasesAll ==
    last_io.op = "cleanup"
        => /\ DOMAIN output_files_ = {}
           /\ DOMAIN input_files_ = {}
           /\ DOMAIN input_pipes_ = {}
           /\ DOMAIN output_pipes_ = {}
           /\ DOMAIN coprocesses_ = {}
           /\ children = {}

\* ------------------------------------------------------------------------
\* Output to files: execute(PrintStmt&) and execute(PrintfStmt&) with a
\* redirection > t or >> t  (src/src/interpreter_exec.cpp:193-241,
\* get_output_stream in src/src/interpreter.cpp)
\* ------------------------------------------------------------------------

\* RedirectType (ast.hpp) of a redirection to a file
RedirectTypes == {"WRITE", "APPEND"}

\* the content a file has before the run
OldContent == {<<>>, <<0>>}

InitOut ==
    /\ IdleRun
    /\ IdleCall
    /\ IdleIO
    /\ IdleRec
    /\ IdleRange
    /\ IdleMain
    /\ IdleRegex
    /\ IdleLex
    /\ IdleEval
    /\ IdleInc
    /\ IdleParse
    /\ disk \in [Targets \ SpecialOutput -> OldContent]
    /\ writes = 0
    /\ last_out = NoOut

\* get_output_stream reopening the file without looking into output_files_
get_output_file_reopens(t, ok) ==
    IF ok /\ next_id <= MaxOpens
    THEN [id |-> next_id, fresh |-> TRUE]
    ELSE [id |-> 0, fresh |-> FALSE]

\* get_output_stream, lines 1076-1095: the stream registered for t in
\* output_files_ or, when there is none, a stream that is opened now (ok)
\* and registered; id 0 stands for output_, returned when the open fails
get_output_file(t, ok) ==
    IF t \in DOMAIN output_files_
    THEN [id |-> output_files_[t], fresh |-> FALSE]
    ELSE IF ok /\ next_id <= MaxOpens
    THEN [id |-> next_id, fresh |-> TRUE]
    ELSE [id |-> 0, fresh |-> FALSE]

\* std::ofstream(target, mode): std::ios::out truncates the file,
\* std::ios::out | std::ios::app keeps what it holds
OpenFile(content, type) == IF type = "APPEND" THEN content ELSE <<>>

\* print ... > t, print ... >> t, printf ... > t, printf ... >> t: the
\* stream is taken from get_output_stream and the output is written to it
print_to_file ==
    /\ writes < MaxWrites
    /\ \E t \in Targets, type \in RedirectTypes, ok \in BOOLEAN :
         LET out == IF t \in SpecialOutput
                    THEN [id |-> 0, fresh |-> FALSE]
                    ELSE get_output_file(t, ok)
         IN /\ output_files_' = IF out.fresh
                                THEN Put(output_files_, t, out.id)
                                ELSE output_files_
            /\ next_id' = IF out.fresh THEN next_id + 1 ELSE next_id
            /\ disk' = IF out.id = 0 THEN disk
                       ELSE [disk EXCEPT ![t] =
                               Append(IF out.fresh THEN OpenFile(@, type)
                                      ELSE @,
                                      writes + 1)]
            /\ last_out' = [target |-> t, id |-> out.id]
            /\ last_io' = Used("print_file", t, out.id, out.fresh)
            /\ closed_targets' = closed_targets \ {t}
    /\ writes' = writes + 1
    /\ UNCHANGED <<input_files_, input_pipes_, output_pipes_, coprocesses_,
                   children>>
    /\ UNCHANGED notOut

NextOut ==
    \/ print_to_file
    \/ close_file
    \/ cleanup_io

SpecOut == InitOut /\ [][NextOut]_vars

Blank == " "

\* the record of n fields "a" separated by single blanks
RECURSIVE RecordOf(_)
RecordOf(n) ==
    IF n = 0 THEN <<>>
    ELSE IF n = 1 THEN <<"a">>
    ELSE RecordOf(n - 1) \o <<Blank, "a">>

\* a record with a leading blank and a run of blanks
Ragged == <<Blank, "a", Blank, Blank, "a">>

\* input records
Records == {RecordOf(n) : n \in 0..MaxField} \cup {Ragged}

\* values a program assigns to a field
FieldValues == {<<"b">>}

\* the value a program assigns to a special variable, besides the default
NewSpecial ==
    [FS |-> <<"-">>, RS |-> <<"-">>, OFS |-> <<"-">>, ORS |-> <<"-">>,
     OFMT |-> <<"%.2f">>, FPAT |-> <<"a">>, SUBSEP |-> <<"-">>]

RECURSIVE Join(_, _)
Join(fs, sep) ==
    IF fs = <<>> THEN <<>>
    ELSE IF Len(fs) = 1 THEN fs[1]
    ELSE fs[1] \o sep \o Join(Tail(fs), sep)

\* parse_fields, fs == " ": `while (iss >> field)`, runs of blanks separate
RECURSIVE SplitWhitespace(_, _, _)
SplitWhitespace(s, i, cur) ==
    IF i > Len(s) THEN (IF cur = <<>> THEN <<>> ELSE <<cur>>)
    ELSE IF s[i] = Blank
         THEN (IF cur = <<>> THEN <<>> ELSE <<cur>>)
              \o SplitWhitespace(s, i + 1, <<>>)
         ELSE SplitWhitespace(s, i + 1, Append(cur, s[i]))

\* parse_fields, single character separator: every occurrence separates,
\* empty fields are kept, the remainder is the last field
RECURSIVE SplitChar(_, _, _, _)
SplitChar(s, sep, i, cur) ==
    IF i > Len(s) THEN <<cur>>
    ELSE IF s[i] = sep
         THEN <<cur>> \o SplitChar(s, sep, i + 1, <<>>)
         ELSE SplitChar(s, sep, i + 1, Append(cur, s[i]))

\* parse_fields, FPAT mode, for a pattern that is one literal character:
\* the fields are the matches
RECURSIVE FpatFields(_, _, _)
FpatFields(s, c, i) ==
    IF i > Len(s) THEN <<>>
    ELSE IF s[i] = c THEN <<(<<c>>)>> \o FpatFields(s, c, i + 1)
    ELSE FpatFields(s, c, i + 1)

\* fields_.push_back("") until the vector has n elements
RECURSIVE Extend(_, _)
Extend(fs, n) == IF Len(fs) >= n THEN fs ELSE Extend(Append(fs, <<>>), n)

\* refresh_special_var_cache
refresh_special_var_cache(M) ==
    IF ~M.sdirty THEN M
    ELSE [M EXCEPT !.cached = special, !.sdirty = FALSE]

\* get_cached_rs, get_cached_fs, ...: the state after the call; the value
\* returned is its cached[name]
get_cached(M, name) ==
    LET M1 == refresh_special_var_cache(M)
    IN [M1 EXCEPT !.used = @ \cup {<<name, M1.cached[name]>>}]

\* a special variable read through env_ directly
get_env(M, name) == [M EXCEPT !.used = @ \cup {<<name, special[name]>>}]

parse_fields(M) ==
    IF ~M.rdirty THEN M
    ELSE LET M1 == get_cached(M, "FPAT")
             fpat == M1.cached["FPAT"]
         IN IF fpat # <<>>
            THEN LET fs1 == FpatFields(M1.rec, fpat[1], 1)
                 IN [M1 EXCEPT !.fields = fs1, !.nf = Len(fs1),
                               !.rdirty = FALSE, !.fdirty = FALSE]
            ELSE LET M2 == get_cached(M1, "FS")
                     fs == M2.cached["FS"]
                     fs2 == IF fs = <<Blank>>
                            THEN SplitWhitespace(M2.rec, 1, <<>>)
                            ELSE IF Len(fs) = 1
                            THEN SplitChar(M2.rec, fs[1], 1, <<>>)
                            ELSE <<M2.rec>>
                 IN [M2 EXCEPT !.fields = fs2, !.nf = Len(fs2),
                               !.rdirty = FALSE, !.fdirty = FALSE]

rebuild_record(M) ==
    IF ~M.fdirty THEN M
    ELSE LET M1 == get_cached(M, "OFS")
         IN [M1 EXCEPT !.rec = Join(M1.fields, M1.cached["OFS"]),
                       !.fdirty = FALSE]

\* get_field: the state after the call
get_field(M, index) ==
    LET M1 == parse_fields(M)
    IN IF index = 0 THEN rebuild_record(M1)
       ELSE IF index < 0 THEN M1
       ELSE [M1 EXCEPT !.fields = Extend(@, index)]

\* get_field: the string of the value returned
field_value(M, index) ==
    IF index = 0 THEN get_field(M, 0).rec
    ELSE IF index < 0 THEN <<>>
    ELSE get_field(M, index).fields[index]

set_field(M, index, value) ==
    LET M1 == parse_fields(M)
    IN IF index = 0
       THEN parse_fields([M1 EXCEPT !.rec = value, !.rdirty = TRUE])
       ELSE IF index < 0 THEN M1
       ELSE LET fs1 == [Extend(M1.fields, index) EXCEPT ![index] = value]
            IN [M1 EXCEPT !.fields = fs1, !.fdirty = TRUE, !.nf = Len(fs1)]

\* a set_record that leaves the parse to the next access of a field
set_record_unparsed(M, record) == [M EXCEPT !.rec = record, !.rdirty = TRUE]

set_record(M, record) ==
    parse_fields([M EXCEPT !.rec = record, !.rdirty = TRUE])

\* the record state of the interpreter before an operation
Cur ==
    [rec |-> current_record_, fields |-> fields_, fdirty |-> fields_dirty_,
     rdirty |-> record_dirty_, nf |-> NF, cached |-> cached,
     sdirty |-> special_vars_dirty_, used |-> {}]

\* the record state after an operation, and what the operation did:
\* val is its result or output, seen the text of $0 it worked on
Store(M, op, arg, val, seen) ==
    /\ current_record_' = M.rec
    /\ fields_' = M.fields
    /\ fields_dirty_' = M.fdirty
    /\ record_dirty_' = M.rdirty
    /\ NF' = M.nf
    /\ cached' = M.cached
    /\ special_vars_dirty_' = M.sdirty
    /\ obs' = [op |-> op, arg |-> arg, val |-> val, seen |-> seen,
               want |-> rebuild_record(Cur).rec, used |-> M.used]

\* AWKValue::to_string(ofmt) of the number 0.5
FormatHalf(ofmt) ==
    IF ofmt = <<"%.2f">> THEN <<"0.50">> ELSE <<"0.5">>

\* std::regex_search(s, /b/)
Contains(s, c) == \E i \in 1..Len(s) : s[i] = c

\* regex_replace of the literal /a/ by "b": the first match, or every match
RECURSIVE Replace(_, _, _)
Replace(s, i, global) ==
    IF i > Len(s) THEN <<>>
    ELSE IF s[i] = "a"
         THEN <<"b">> \o (IF global THEN Replace(s, i + 1, global)
                          ELSE SubSeq(s, i + 1, Len(s)))
         ELSE <<s[i]>> \o Replace(s, i + 1, global)

InitRec ==
    /\ IdleRun
    /\ IdleCall
    /\ IdleIO
    /\ current_record_ = <<>>
    /\ fields_ = <<>>
    /\ fields_dirty_ = FALSE
    /\ record_dirty_ = FALSE
    /\ NF = 0
    /\ \E ofs \in {DefaultSpecial["OFS"], NewSpecial["OFS"]} :
            special = [DefaultSpecial EXCEPT !["OFS"] = ofs]
    /\ cached = EmptyCache
    /\ special_vars_dirty_ = TRUE
    /\ assigns = 0
    /\ obs = NoObs
    /\ IdleRange
    /\ IdleMain
    /\ IdleRegex
    /\ IdleLex
    /\ IdleEval
    /\ IdleInc
    /\ IdleParse
    /\ IdleOut

\* Interpreter::read_record, on a stream that has a record
read_record ==
    /\ NR < MaxReads
    /\ \E r \in Records :
         LET M1 == get_cached(Cur, "RS")
             M2 == [M1 EXCEPT !.rec = r, !.sdirty = TRUE, !.rdirty = TRUE]
         IN Store(parse_fields(M2), "read_record", 0, r, <<>>)
    /\ NR' = NR + 1
    /\ FNR' = FNR + 1
    /\ UNCHANGED <<special, assigns>>
    /\ UNCHANGED notRec

\* `$0 = v`: AssignExpr on a FieldExpr with index 0
assign_record ==
    /\ \E v \in Records :
         Store(get_field(set_field(Cur, 0, v), 0), "assign_record", 0, v, <<>>)
    /\ UNCHANGED <<NR, FNR, special, assigns>>
    /\ UNCHANGED notRec

\* `$i = v`: AssignExpr on a FieldExpr
assign_field ==
    /\ \E i \in (-1..MaxField) \ {0}, v \in FieldValues :
         LET M1 == set_field(Cur, i, v)
         IN Store(get_field(M1, i), "assign_field", i, field_value(M1, i), <<>>)
    /\ UNCHANGED <<NR, FNR, special, assigns>>
    /\ UNCHANGED notRec

\* `NF = k`: AssignExpr on the variable NF
assign_NF ==
    /\ \E k \in 0..MaxField :
         Store([Cur EXCEPT !.nf = k], "assign_NF", k, <<>>, <<>>)
    /\ UNCHANGED <<NR, FNR, special, assigns>>
    /\ UNCHANGED notRec

\* `$i` read: FieldExpr
read_field ==
    /\ \E i \in -1..MaxField :
         LET v == field_value(Cur, i)
         IN Store(get_field(Cur, i), "read_field", i, v,
                  IF i = 0 THEN v ELSE <<>>)
    /\ UNCHANGED <<NR, FNR, special, assigns>>
    /\ UNCHANGED notRec

\* `print` without arguments
print_record ==
    /\ LET M1 == rebuild_record(Cur)
           M2 == get_cached(M1, "ORS")
       IN Store(M2, "print_record", 0, M1.rec \o M2.cached["ORS"], M1.rec)
    /\ UNCHANGED <<NR, FNR, special, assigns>>
    /\ UNCHANGED notRec

\* `print "a", 0.5`
print_args ==
    /\ LET M1 == get_cached(Cur, "OFS")
           M2 == get_cached(M1, "OFMT")
           M3 == get_cached(M2, "ORS")
       IN Store(M3, "print_args", 0,
                <<"a">> \o M1.cached["OFS"] \o FormatHalf(M2.cached["OFMT"])
                    \o M3.cached["ORS"], <<>>)
    /\ UNCHANGED <<NR, FNR, special, assigns>>
    /\ UNCHANGED notRec

\* a rule without an action whose pattern matched
default_action ==
    /\ LET M1 == get_env(Cur, "ORS")
       IN Store(M1, "default_action", 0,
                current_record_ \o special["ORS"], current_record_)
    /\ UNCHANGED <<NR, FNR, special, assigns>>
    /\ UNCHANGED notRec

\* the pattern /b/, alone or as an endpoint of a range
match_regex ==
    /\ Store(Cur, "match_regex", 0,
             IF Contains(current_record_, "b") THEN <<"1">> ELSE <<"0">>,
             current_record_)
    /\ UNCHANGED <<NR, FNR, special, assigns>>
    /\ UNCHANGED notRec

\* sub(/a/, "b") and gsub(/a/, "b") without a target
sub_record ==
    /\ \E global \in BOOLEAN :
         LET result == Replace(current_record_, 1, global)
             M1 == IF result # current_record_
                   THEN set_record(Cur, result) ELSE Cur
         IN Store(M1, IF global THEN "gsub" ELSE "sub", 0, result,
                  current_record_)
    /\ UNCHANGED <<NR, FNR, special, assigns>>
    /\ UNCHANGED notRec

\* length() without arguments
length_record ==
    /\ Store(Cur, "length", Len(current_record_), <<>>, current_record_)
    /\ UNCHANGED <<NR, FNR, special, assigns>>
    /\ UNCHANGED notRec

\* `getline < file` without a variable
getline_record ==
    /\ \E line \in Records :
         Store(set_record(get_env(Cur, "RS"), line), "getline", 0, line, <<>>)
    /\ UNCHANGED <<NR, FNR, special, assigns>>
    /\ UNCHANGED notRec

\* `arr["a", "a"]`: make_array_key
array_key ==
    /\ LET M1 == get_cached(Cur, "SUBSEP")
       IN Store(M1, "array_key", 0,
                <<"a">> \o M1.cached["SUBSEP"] \o <<"a">>, <<>>)
    /\ UNCHANGED <<NR, FNR, special, assigns>>
    /\ UNCHANGED notRec

NextRec ==
    \/ read_record
    \/ assign_record
    \/ assign_field
    \/ assign_NF
    \/ read_field
    \/ print_record
    \/ print_args
    \/ default_action
    \/ match_regex
    \/ sub_record
    \/ length_record
    \/ getline_record
    \/ array_key

SpecRec == InitRec /\ [][NextRec]_vars

\* the operations that use $0
UsesRecord ==
    \/ obs.op \in {"print_record", "default_action", "match_regex", "sub",
                   "gsub", "length"}
    \/ obs.op = "read_field" /\ obs.arg = 0

\* C5: after an assignment to a field, every use of $0 (explicit $0, bare
\* print, default action, regex pattern, default target of sub, gsub and
\* length) sees the record rebuilt by joining the fields with OFS.
C5_RecordRebuilt == UsesRecord => obs.seen = obs.want

\* C6: after every field-modifying operation NF is the number of elements of
\* the field vector, and after `NF = k` the vector has exactly k elements.
C6_NFCountsFields ==
    obs.op \in {"read_record", "assign_record", "assign_field", "getline",
                "sub", "gsub", "assign_NF"}
        => /\ NF = Len(fields_)
           /\ obs.op = "assign_NF" => Len(fields_) = obs.arg

\* the text of $0: the record, rebuilt when a field was assigned
RecordText == rebuild_record(Cur).rec

\* the value of OFS rebuild_record joins the fields with
OutputSeparator == get_cached(Cur, "OFS").cached["OFS"]

\* C25: an assignment to $i with i greater than the current NF makes NF
\* equal to i, and every field $j between the old NF and i is empty.
C25_AssignBeyondNF ==
    [][(obs'.op = "assign_field" /\ obs'.arg > NF)
          => /\ NF' = obs'.arg
             /\ \A j \in (NF + 1)..(obs'.arg - 1) : fields_'[j] = <<>>]_vars

\* C27: reading $i with i > NF yields the empty string and changes neither
\* NF, nor the number of fields, nor $0; and an assignment to an existing
\* field $j, j <= NF, leaves NF unchanged and rebuilds $0 with NF fields.
C27_ReadBeyondNF ==
    [][/\ (obs'.op = "read_field" /\ obs'.arg > NF)
            => /\ obs'.val = <<>>
               /\ NF' = NF
               /\ Len(fields_') = Len(fields_)
               /\ RecordText' = RecordText
       /\ (obs'.op = "assign_field" /\ obs'.arg >= 1 /\ obs'.arg <= NF)
            => /\ NF' = NF
               /\ Len(fields_') = NF
               /\ RecordText' = Join(SubSeq(fields_', 1, NF), OutputSeparator')]_vars

\* C28: after each of read_record, set_record, set_field, get_field,
\* parse_fields and rebuild_record has returned, at most one of the flags
\* fields_dirty_ and record_dirty_ is true.
C28_OneDirtyFlag == ~(fields_dirty_ /\ record_dirty_)

\* a record was set while the fields were dirty
C28_Witness ==
    /\ obs.op = "getline"
    /\ obs.want # obs.val
    /\ obs.want # <<>>
    /\ ~fields_dirty_
    /\ ~record_dirty_

\* ------------------------------------------------------------------------
\* The cache of the special variables  (src/src/interpreter.cpp)
\* ------------------------------------------------------------------------

InitCache ==
    /\ IdleRun
    /\ IdleCall
    /\ IdleIO
    /\ IdleRec
    /\ IdleRange
    /\ IdleMain
    /\ IdleRegex
    /\ IdleLex
    /\ IdleEval
    /\ IdleInc
    /\ IdleParse
    /\ IdleOut

\* `OFS = v` and the like: AssignExpr on a VariableExpr, which writes the
\* variable of the environment
assign_special ==
    /\ assigns < MaxAssigns
    /\ \E n \in SpecialNames :
         special' = [special EXCEPT ![n] = NewSpecial[n]]
    /\ assigns' = assigns + 1
    /\ obs' = [NoObs EXCEPT !.op = "assign_special"]
    /\ UNCHANGED <<current_record_, fields_, fields_dirty_, record_dirty_, NF,
                   cached, special_vars_dirty_, NR, FNR>>
    /\ UNCHANGED notRec

NextCache ==
    \/ read_record
    \/ assign_special
    \/ assign_field
    \/ print_record
    \/ print_args
    \/ default_action
    \/ getline_record
    \/ array_key

SpecCache == InitCache /\ [][NextCache]_vars

\* C7: an operation that uses OFS, ORS, FS, RS, OFMT, FPAT or SUBSEP uses the
\* value the program assigned last, never a value cached before.
C7_SpecialValueUsed ==
    \A u \in obs.used : u[2] = special[u[1]]

\* ------------------------------------------------------------------------
\* Range patterns  (src/src/interpreter.cpp, pattern_matches)
\* The rule is `/s/, /e/`: a record matches `start` when it contains an "s"
\* and `end` when it contains an "e".  The pattern is evaluated on every
\* record that is read.
\* ------------------------------------------------------------------------

RECURSIVE StringsUpTo(_, _)
StringsUpTo(alphabet, n) ==
    IF n = 0 THEN {<<>>}
    ELSE LET shorter == StringsUpTo(alphabet, n - 1)
         IN shorter \cup {Append(w, c) : w \in shorter, c \in alphabet}

RangeRecords == StringsUpTo({"s", "e", "x"}, MaxRangeLen)

\* eval_range_expr on range_start and on range_end
StartMatches(record) == Contains(record, "s")

EndMatches(record) == Contains(record, "e")

\* pattern_matches with the record that matches `end` left out of the range
pattern_matches_end_exclusive(active, record) ==
    IF active
    THEN [matches |-> ~EndMatches(record),
          range_active |-> IF EndMatches(record) THEN FALSE ELSE TRUE]
    ELSE IF StartMatches(record)
    THEN [matches |-> TRUE,
          range_active |-> IF ~EndMatches(record) THEN TRUE ELSE FALSE]
    ELSE [matches |-> FALSE, range_active |-> FALSE]

\* pattern_matches that does not evaluate `end` on the record that starts
pattern_matches_no_end_check(active, record) ==
    IF active
    THEN [matches |-> TRUE,
          range_active |-> IF EndMatches(record) THEN FALSE ELSE TRUE]
    ELSE IF StartMatches(record)
    THEN [matches |-> TRUE, range_active |-> TRUE]
    ELSE [matches |-> FALSE, range_active |-> FALSE]

\* pattern_matches, case RANGE: the value returned and the range_active left
pattern_matches(active, record) ==
    IF active
    THEN [matches |-> TRUE,
          range_active |-> IF EndMatches(record) THEN FALSE ELSE TRUE]
    ELSE IF StartMatches(record)
    THEN [matches |-> TRUE,
          range_active |-> IF ~EndMatches(record) THEN TRUE ELSE FALSE]
    ELSE [matches |-> FALSE, range_active |-> FALSE]

InitRange ==
    /\ IdleRun
    /\ IdleCall
    /\ IdleIO
    /\ IdleRec
    /\ IdleRange
    /\ IdleMain
    /\ IdleRegex
    /\ IdleLex
    /\ IdleEval
    /\ IdleInc
    /\ IdleParse
    /\ IdleOut

\* process_stream reads the next record
range_read ==
    /\ range_pc = "read"
    /\ \E r \in RangeRecords : range_record' = r
    /\ range_pc' = "match"
    /\ UNCHANGED <<range_active, range_last>>
    /\ UNCHANGED notRange

\* execute_main_rules evaluates the pattern of the rule on the record
range_rule ==
    /\ range_pc = "match"
    /\ LET r == pattern_matches(range_active, range_record)
       IN /\ range_active' = r.range_active
          /\ range_last' = [evaluated |-> TRUE,
                            was_active |-> range_active,
                            start |-> StartMatches(range_record),
                            end |-> EndMatches(range_record),
                            matches |-> r.matches]
    /\ range_pc' = "read"
    /\ UNCHANGED range_record
    /\ UNCHANGED notRange

NextRange ==
    \/ range_read
    \/ range_rule

SpecRange == InitRange /\ [][NextRange]_vars

\* C8: an inactive range rule matches a record that matches `start` and not
\* `end` and becomes active; an active rule matches every record and stays
\* active until a record matches `end`, which it still matches and after
\* which it is inactive; an inactive rule matches no record that does not
\* match `start`.
C8_RangeSpan ==
    [][range_pc = "match" /\ range_pc' = "read" =>
        /\ ~range_active /\ StartMatches(range_record)
                         /\ ~EndMatches(range_record)
              => range_last'.matches /\ range_active'
        /\ range_active
              => /\ range_last'.matches
                 /\ range_active' = ~EndMatches(range_record)
        /\ ~range_active /\ ~StartMatches(range_record)
              => ~range_last'.matches /\ ~range_active']_vars

\* an active range was closed by a record that matches `end`
C8_Witness ==
    /\ range_last.evaluated
    /\ range_last.was_active
    /\ range_last.end
    /\ range_last.matches
    /\ ~range_active

\* C9: an inactive range rule matches a record that matches both `start`
\* and `end` and stays inactive, and the record after it matches exactly
\* when it matches `start`.
C9_RangeSingleRecord ==
    [][range_pc = "match" /\ range_pc' = "read" =>
        /\ ~range_active /\ StartMatches(range_record)
                         /\ EndMatches(range_record)
              => range_last'.matches /\ ~range_active'
        /\ range_last.evaluated /\ ~range_last.was_active
                                /\ range_last.start /\ range_last.end
              => (range_last'.matches <=> StartMatches(range_record))]_vars

\* a record that matches `start` and `end` was matched by the inactive rule
\* and the record after it, which does not match `start`, was not
C9_Witness ==
    /\ range_last.evaluated
    /\ ~range_last.was_active
    /\ range_last.start
    /\ range_last.end
    /\ range_last.matches
    /\ ~range_active
    /\ range_pc = "read"


\* ------------------------------------------------------------------------
\* Lexer, Parser and the start of main()
\* (src/src/lexer.cpp, src/src/parser.cpp, src/src/main.cpp)
\* The program text is a sequence of top-level items, each on a line of
\* its own after an empty first line:
\*   "rule"           a well-formed rule with an action block
\*   "BEGIN", ...     a rule that consists of the keyword only
\*   "missing_token"  a rule with a statement in which consume() does not
\*                    find the token it expects, as in { x = (1 }
\*   "string"         a rule whose action holds a string literal: an opening
\*                    quote followed by the characters `text`
\*   "regex"          the same with a regex literal
\*   "stuck"          a token that no parse function consumes at the start
\*                    of a rule, as ) or ]
\* ------------------------------------------------------------------------

\* the special patterns of parse_pattern (parser.cpp:461-474)
SpecialPatterns == {"BEGIN", "END", "BEGINFILE", "ENDFILE"}

Literals == {"string", "regex"}

Items == {"rule", "missing_token", "stuck"} \cup Literals
            \cup SpecialPatterns

\* the characters of a literal: "d" is the closing delimiter (the quote of
\* a string, the slash of a regex), "b" a backslash, "n" a newline, "c" any
\* other character
Chars == {"d", "b", "n", "c"}

RECURSIVE SeqsUpTo(_, _)
SeqsUpTo(S, n) ==
    IF n = 0 THEN {<<>>}
    ELSE SeqsUpTo(S, n - 1)
            \cup {Append(q, x) : q \in SeqsUpTo(S, n - 1), x \in S}

InitParse ==
    /\ IdleRun
    /\ IdleCall
    /\ IdleIO
    /\ IdleRec
    /\ IdleRange
    /\ IdleMain
    /\ IdleRegex
    /\ IdleLex
    /\ IdleEval
    /\ IdleInc
    /\ IdleOut
    /\ source \in SeqsUpTo(Items, MaxItems)
    /\ text \in SeqsUpTo(Chars, MaxLit)
    /\ pos = 1
    /\ errors_ = <<>>
    /\ had_error_ = FALSE
    /\ panic_mode_ = FALSE
    /\ parsed = <<>>
    /\ main_pc = "parse"

\* scan_string accepting the end of the text as the end of the string
RECURSIVE scan_string_lenient(_, _)
scan_string_lenient(b, i) ==
    IF i > Len(b) THEN "STRING"
    ELSE IF b[i] = "d" THEN "STRING"
    ELSE IF b[i] = "n" THEN "ERROR"
    ELSE IF b[i] = "b" THEN scan_string_lenient(b, i + 2)
    ELSE scan_string_lenient(b, i + 1)

\* Lexer::scan_string (lexer.cpp:265-291) from character i of b on: the
\* type of the token it returns
RECURSIVE scan_string(_, _)
scan_string(b, i) ==
    IF i > Len(b) THEN "ERROR"                      \* is_at_end()
    ELSE IF b[i] = "d" THEN "STRING"                \* the closing quote
    ELSE IF b[i] = "n" THEN "ERROR"                 \* newline in the string
    ELSE IF b[i] = "b"
    THEN IF i + 1 > Len(b) THEN "ERROR"             \* backslash at the end
         ELSE scan_string(b, i + 2)                 \* escape_char
    ELSE scan_string(b, i + 1)

\* Lexer::scan_regex (lexer.cpp:293-317): a backslash takes the character
\* after it along unless that is a newline or the end of the text
RECURSIVE scan_regex(_, _)
scan_regex(b, i) ==
    IF i > Len(b) THEN "ERROR"
    ELSE IF b[i] = "d" THEN "REGEX"
    ELSE IF b[i] = "n" THEN "ERROR"
    ELSE IF b[i] = "b"
    THEN IF i + 1 <= Len(b) /\ b[i + 1] # "n"
         THEN scan_regex(b, i + 2)
         ELSE scan_regex(b, i + 1)
    ELSE scan_regex(b, i + 1)

\* Lexer::scan_token for the literal of item k: the token type
scan_token(k, b) == IF k = "string" THEN scan_string(b, 1)
                    ELSE scan_regex(b, 1)

\* Parser::error_at_current (parser.cpp:186-202) on the parser state
\* P = [errors_, had_error_, panic_mode_] with the current token on `line`
error_at_current(P, line) ==
    IF P.panic_mode_ THEN P
    ELSE [errors_ |-> Append(P.errors_, line),
          had_error_ |-> TRUE,
          panic_mode_ |-> TRUE]

\* the items in whose parse error_at_current is called: by consume()
\* (parser.cpp:134-143), by primary() (line 1287) or, for an ERROR token of
\* the lexer, by advance() (lines 103-112)
RaisesError(k, b) ==
    \/ k \in {"missing_token", "stuck"}
    \/ k \in Literals /\ scan_token(k, b) = "ERROR"

\* the Rule that Parser::rule (parser.cpp:440-459) returns for the item:
\* its pattern type and whether it has an action. A special pattern
\* without a block gives a Rule with a null action and no error; for a
\* stuck token primary() returns its fallback literal without consuming the
\* token and rule() returns an expression pattern without action.
RuleOf(k) ==
    IF k \in SpecialPatterns THEN [type |-> k, action |-> FALSE]
    ELSE IF k = "stuck" THEN [type |-> "MAIN", action |-> FALSE]
    ELSE [type |-> "MAIN", action |-> TRUE]

\* One iteration of the loop of Parser::parse (parser.cpp:244-271). No
\* parse function throws on a syntax error, so the handler that calls
\* synchronize() is not entered and panic_mode_ is not reset. The loop ends
\* when the current token is END_OF_FILE; on a token that nothing consumes
\* it goes on appending rules without advancing (when that has used up the
\* memory, synchronize() is called for std::bad_alloc and returns at once,
\* the previous token being the NEWLINE before the item).
parse_item ==
    /\ main_pc = "parse"
    /\ pos <= Len(source)
    /\ Len(parsed) < MaxParsed
    /\ LET k == source[pos]
           P == [errors_ |-> errors_, had_error_ |-> had_error_,
                 panic_mode_ |-> panic_mode_]
           Q == IF RaisesError(k, text) THEN error_at_current(P, pos) ELSE P
       IN /\ errors_' = Q.errors_
          /\ had_error_' = Q.had_error_
          /\ panic_mode_' = Q.panic_mode_
          /\ parsed' = Append(parsed, RuleOf(k))
          /\ pos' = IF k = "stuck" THEN pos ELSE pos + 1
    /\ UNCHANGED <<source, text, main_pc>>
    /\ UNCHANGED <<runVars, mainVars>>
    /\ UNCHANGED notParse

\* Parser::parse returns the program (parser.cpp:274)
parse_return ==
    /\ main_pc = "parse"
    /\ pos > Len(source)
    /\ main_pc' = "parsed"
    /\ UNCHANGED <<source, text, pos, errors_, had_error_, panic_mode_,
                   parsed>>
    /\ UNCHANGED <<runVars, mainVars>>
    /\ UNCHANGED notParse

\* main(), lines 149-154: the errors are printed and main returns 1
main_parse_error ==
    /\ main_pc = "parsed"
    /\ had_error_
    /\ reported' = (reported \/ errors_ # <<>>)
    /\ status' = [how |-> "returned", code |-> 1]
    /\ main_pc' = "exited"
    /\ UNCHANGED <<source, text, pos, errors_, had_error_, panic_mode_,
                   parsed>>
    /\ UNCHANGED runVars
    /\ UNCHANGED notParse

\* main(), lines 156-178: the Interpreter is constructed and run() is called
\* with the program
main_run ==
    /\ main_pc = "parsed"
    /\ ~had_error_
    /\ main_pc' = "run"
    /\ program' = [i \in 1..Len(parsed) |-> parsed[i].type]
    /\ pc' = "begin"
    /\ UNCHANGED <<source, text, pos, errors_, had_error_, panic_mode_,
                   parsed>>
    /\ UNCHANGED <<input_files, idx, file_idx, stream_pos, NR, FNR, FILENAME,
                   begin_ran, end_ran, beginfile_ran, endfile_ran, sig, left>>
    /\ UNCHANGED mainVars
    /\ UNCHANGED notParse

NextParse ==
    \/ parse_item
    \/ parse_return
    \/ main_parse_error
    \/ main_run

SpecParse == InitParse /\ [][NextParse]_vars

\* the lines of the items with a syntax error, in the order of the text
RECURSIVE ErrorLines(_, _, _)
ErrorLines(src, b, i) ==
    IF i > Len(src) THEN <<>>
    ELSE IF RaisesError(src[i], b) THEN <<i>> \o ErrorLines(src, b, i + 1)
    ELSE ErrorLines(src, b, i + 1)

\* C18: when the program has several independent syntax errors in different
\* statements, errors() holds one message with its line for every one of
\* them once parse() has returned.
C18_AllErrorsReported ==
    main_pc \in {"parsed", "exited", "run"}
        => errors_ = ErrorLines(source, text, 1)

\* character k of b is escaped: an odd number of backslashes precedes it
RECURSIVE BackslashesBefore(_, _)
BackslashesBefore(b, k) ==
    IF k > 1 /\ b[k - 1] = "b" THEN 1 + BackslashesBefore(b, k - 1) ELSE 0

Escaped(b, k) == BackslashesBefore(b, k) % 2 = 1

\* a literal is unterminated when no unescaped closing delimiter follows
\* before a newline (for a string: an unescaped newline) or the end
Unterminated(k, b) ==
    ~ \E e \in 1..Len(b) :
          /\ b[e] = "d"
          /\ ~Escaped(b, e)
          /\ \A j \in 1..(e - 1) :
                /\ b[j] = "d" => Escaped(b, j)
                /\ b[j] = "n" => (k = "string" /\ Escaped(b, j))

HasUnterminated ==
    \E i \in 1..Len(source) :
        source[i] \in Literals /\ Unterminated(source[i], text)

\* C19: for a program text with an unterminated string or regex literal the
\* lexer returns an ERROR token; once parse() has returned had_error() is
\* true and a message is recorded; main() does not call Interpreter::run
\* and, having printed the errors, exits with status 1.
C19_UnterminatedIsParseError ==
    /\ \A k \in Literals :
          Unterminated(k, text) => scan_token(k, text) = "ERROR"
    /\ (HasUnterminated /\ main_pc \in {"parsed", "exited", "run"})
          => /\ had_error_
             /\ errors_ # <<>>
             /\ main_pc # "run"
             /\ pc = "idle"
    /\ (HasUnterminated /\ main_pc = "exited")
          => /\ reported
             /\ status = [how |-> "returned", code |-> 1]

\* a string literal that ends with an escaped quote was parsed and main()
\* has returned
C19_Witness ==
    /\ source = <<"rule", "string">>
    /\ text = <<"b", "d">>
    /\ main_pc = "exited"

\* C20: a rule whose pattern is BEGIN, END, BEGINFILE or ENDFILE and which
\* has no action block is rejected: had_error() is true.
C20_SpecialNeedsAction ==
    \A i \in 1..Len(parsed) :
        parsed[i].type \in SpecialPatterns /\ ~parsed[i].action
            => had_error_

\* C26: Parser::parse terminates for every program text: each iteration of
\* its loop over the top-level items consumes at least one token, whatever
\* the next token is.
C26_ParseAdvances ==
    [][(main_pc = "parse" /\ parsed' # parsed) => pos' > pos]_vars


\* ------------------------------------------------------------------------
\* The @include directive  (src/src/parser.cpp)
\*
\* A path is the sequence of its components: "./a" is <<".", "a">> and
\* ".//a" is <<".", "", "a">>.  All files are in one directory.  A file is
\* a sequence of @include directives followed by one rule.
\* ------------------------------------------------------------------------

\* the files of the directory
IncludeNames == {"a", "b"}

\* what a directive can write for the file f
FileNames(f) == {<<f>>, <<".", f>>, <<".", "", f>>}

AllFileNames == UNION {FileNames(f) : f \in IncludeNames}

\* the file a path leads to
FileOf(path) == path[Len(path)]

\* Parser::normalize_path: "//" becomes "/"; "." components stay
RECURSIVE normalize_path(_)
normalize_path(path) ==
    IF path = <<>> THEN <<>>
    ELSE IF Len(path) > 1 /\ Head(path) = ""
         THEN normalize_path(Tail(path))
         ELSE <<Head(path)>> \o normalize_path(Tail(path))

\* Parser::resolve_include_path, for the relative names of the model
resolve_include_path(base_path_, filename) ==
    normalize_path(IF base_path_ # <<>> THEN base_path_ \o filename
                   ELSE filename)

\* Parser::get_directory
get_directory(filepath) ==
    IF Len(filepath) = 1 THEN <<".">> ELSE SubSeq(filepath, 1, Len(filepath) - 1)

\* Parser::read_file succeeds: every file of the model exists, and the
\* system opens a path of up to MaxPath components
CanOpen(path) == Len(path) <= MaxPath

\* a Parser at the start of its text
NewParser(path, base, txt) ==
    [current_file_ |-> path, base_path_ |-> base, directives |-> txt, at |-> 1,
     errors_ |-> <<>>, had_error_ |-> FALSE, panic_mode_ |-> FALSE,
     rules |-> <<>>]

\* main(): the text of the file "a" is the program; Parser(lexer) has no
\* current file, no base path and an empty set of included files
InitInc ==
    /\ include_files \in [IncludeNames -> SeqsUpTo(AllFileNames, MaxDirectives)]
    /\ included = {}
    /\ parsers = <<NewParser(<<>>, <<>>, include_files["a"])>>
    /\ splices = <<>>
    /\ IdleRun
    /\ IdleCall
    /\ IdleIO
    /\ IdleRec
    /\ IdleRange
    /\ IdleMain
    /\ IdleRegex
    /\ IdleLex
    /\ IdleEval
    /\ IdleParse
    /\ IdleOut

Top == parsers[Len(parsers)]

SetTop(P) == [parsers EXCEPT ![Len(parsers)] = P]

AtDirective ==
    /\ parsers # <<>>
    /\ Top.at <= Len(Top.directives)

Resolved == resolve_include_path(Top.base_path_, Top.directives[Top.at])

\* process_include, the path is in the set: the directive is ignored
process_include_repeat ==
    /\ AtDirective
    /\ Resolved \in included
    /\ parsers' = SetTop([Top EXCEPT !.at = @ + 1])
    /\ UNCHANGED <<include_files, included, splices>>
    /\ UNCHANGED notInc

\* process_include, the path is new and read_file throws
process_include_unreadable ==
    /\ AtDirective
    /\ Resolved \notin included
    /\ ~CanOpen(Resolved)
    /\ included' = included \cup {Resolved}
    /\ LET E == error_at_current(Top, Resolved)
       IN parsers' = SetTop([Top EXCEPT !.at = @ + 1,
                                        !.errors_ = E.errors_,
                                        !.had_error_ = E.had_error_,
                                        !.panic_mode_ = E.panic_mode_])
    /\ UNCHANGED <<include_files, splices>>
    /\ UNCHANGED notInc

\* process_include, the path is new: a Parser for the file is made
process_include_open ==
    /\ AtDirective
    /\ Resolved \notin included
    /\ CanOpen(Resolved)
    /\ included' = included \cup {Resolved}
    /\ parsers' = Append(parsers,
                         NewParser(Resolved, get_directory(Resolved),
                                   include_files[FileOf(Resolved)]))
    /\ UNCHANGED <<include_files, splices>>
    /\ UNCHANGED notInc

\* the rule after the directives of a file
parse_rule ==
    /\ parsers # <<>>
    /\ Top.at = Len(Top.directives) + 1
    /\ parsers' = SetTop([Top EXCEPT
                            !.at = @ + 1,
                            !.rules = Append(@, IF Top.current_file_ = <<>>
                                                THEN "a"
                                                ELSE FileOf(Top.current_file_))])
    /\ UNCHANGED <<include_files, included, splices>>
    /\ UNCHANGED notInc

\* include_parser.parse() returns: process_include takes over the errors and
\* the rules of the included file
process_include_return ==
    /\ Len(parsers) > 1
    /\ Top.at = Len(Top.directives) + 2
    /\ LET sub == Top
           outer == parsers[Len(parsers) - 1]
       IN /\ parsers' =
                 [SubSeq(parsers, 1, Len(parsers) - 1) EXCEPT
                    ![Len(parsers) - 1] =
                        [outer EXCEPT
                           !.at = @ + 1,
                           !.had_error_ = @ \/ sub.had_error_,
                           !.errors_ = IF sub.had_error_ THEN @ \o sub.errors_
                                       ELSE @,
                           !.rules = @ \o sub.rules]]
          /\ splices' = Append(splices, sub.current_file_)
    /\ UNCHANGED <<include_files, included>>
    /\ UNCHANGED notInc

NextInc ==
    \/ process_include_repeat
    \/ process_include_unreadable
    \/ process_include_open
    \/ parse_rule
    \/ process_include_return

SpecInc == InitInc /\ [][NextInc]_vars

\* Parser::parse of main() has returned
IncludeParsed ==
    /\ Len(parsers) = 1
    /\ Top.at = Len(Top.directives) + 2

\* C21: when the parse of a program whose @include directives form a cycle
\* has returned, no error was recorded for the repeated includes, and no
\* path had its rules spliced into the program twice.
C21_IncludeCycle ==
    IncludeParsed =>
        /\ ~Top.had_error_
        /\ \A i, j \in 1..Len(splices) : splices[i] = splices[j] => i = j


\* ------------------------------------------------------------------------
\* Variables, arrays, assignment and calls with arrays
\* (src/src/environment.cpp, value.cpp, interpreter_eval.cpp, interpreter.cpp)
\*
\* A value is a record of AWKValue::type_, string_value_ and array_value_;
\* a string is a sequence of characters, an array a map from keys to
\* strings.
\* ------------------------------------------------------------------------

\* AWKValue()
Uninitialized == [type |-> "UNINITIALIZED", str |-> <<>>, arr |-> EmptyMap]

\* AWKValue(const std::string&)
StringValue(str) == [type |-> "STRING", str |-> str, arr |-> EmptyMap]

\* the scalar variables, the array variable and the parameter of the
\* function  function modify(arr) { ... }  of the programs
ScalarNames == {"x", "y"}

ArrayNames == {"a"}

Parameter == "arr"

\* the string literals of the programs
StringLiterals == {<<>>, <<"p">>}

\* the subscripts of the programs: a[i] and a[i, j]
Subscripts == {<< <<"i">> >>, << <<"i">>, <<"j">> >>}

\* AWKValue::make_array_key
make_array_key(idx_vals, subsep) == Join(idx_vals, subsep)

ArrayKeys == {make_array_key(sub, DefaultSpecial.SUBSEP) : sub \in Subscripts}

\* the right-hand sides of the assignments: a literal, a variable, and a
\* concatenation of a variable and a literal
RightHandSides ==
    [form : {"literal"}, name : {""}, lit : StringLiterals]
    \cup [form : {"variable"}, name : ScalarNames, lit : {<<>>}]
    \cup [form : {"concat"}, name : ScalarNames, lit : StringLiterals]

\* AWKValue::to_string of a scalar
to_string(v) == IF v.type = "STRING" THEN v.str ELSE <<>>

\* AWKValue::append_string
append_string(v, str) == [v EXCEPT !.type = "STRING", !.str = to_string(v) \o str]

\* AWKValue::copy_from: the copy holds a new AWKArray with the same elements
copy_from(other) == [type |-> other.type, str |-> other.str, arr |-> other.arr]

\* AWKValue::array_access: the value becomes an array, the key is created
array_access(v, key) ==
    LET a == IF v.type # "ARRAY" THEN EmptyMap ELSE v.arr
    IN [type |-> "ARRAY", str |-> v.str,
        arr |-> IF key \in DOMAIN a THEN a ELSE Put(a, key, <<>>)]

\* AWKValue::array_contains
array_contains(v, key) == v.type = "ARRAY" /\ key \in DOMAIN v.arr

\* AWKValue::array_delete
array_delete(v, key) ==
    IF v.type = "ARRAY" THEN [v EXCEPT !.arr = Erase(@, key)] ELSE v

\* the environment: globals_ and scope_stack_
Env == [globals_ |-> globals_, locals_ |-> locals_]

\* Environment::get_variable, the search: the innermost scope that holds
\* the name, 0 for globals_
ScopeOf(E, name) ==
    IF \E k \in 1..Len(E.locals_) : name \in DOMAIN E.locals_[k]
    THEN CHOOSE k \in 1..Len(E.locals_) :
            /\ name \in DOMAIN E.locals_[k]
            /\ \A j \in (k + 1)..Len(E.locals_) : name \notin DOMAIN E.locals_[j]
    ELSE 0

\* Environment::get_variable, the effect: globals_[name] creates the variable
get_variable(E, name) ==
    IF ScopeOf(E, name) = 0 /\ name \notin DOMAIN E.globals_
    THEN [E EXCEPT !.globals_ = Put(@, name, Uninitialized)]
    ELSE E

\* the value the reference returned by get_variable refers to
Deref(E, name) ==
    LET F == get_variable(E, name)
    IN IF ScopeOf(F, name) = 0 THEN F.globals_[name]
       ELSE F.locals_[ScopeOf(F, name)][name]

\* an assignment through the reference returned by get_variable
SetRef(E, name, v) ==
    LET F == get_variable(E, name)
        k == ScopeOf(F, name)
    IN IF k = 0 THEN [F EXCEPT !.globals_[name] = v]
       ELSE [F EXCEPT !.locals_[k][name] = v]

\* Environment::has_variable
has_variable(E, name) ==
    \/ ScopeOf(E, name) # 0
    \/ name \in DOMAIN E.globals_

\* the keys of the array a name refers to, {} when there is none
KeysOf(E, name) ==
    IF has_variable(E, name) /\ Deref(E, name).type = "ARRAY"
    THEN DOMAIN Deref(E, name).arr ELSE {}

\* the names of the variables the statement being executed can use
ArraysInScope == IF calls = <<>> THEN ArrayNames ELSE {Parameter}

InitEval ==
    /\ globals_ = EmptyMap
    /\ locals_ = <<>>
    /\ calls = <<>>
    /\ evals = 0
    /\ last_eval = NoEval
    /\ IdleRun
    /\ IdleCall
    /\ IdleIO
    /\ IdleRec
    /\ IdleRange
    /\ IdleMain
    /\ IdleRegex
    /\ IdleLex
    /\ IdleInc
    /\ IdleParse
    /\ IdleOut

\* evaluate(ConcatExpr&), evaluate(VariableExpr&) and a literal: the
\* environment after the evaluation and the value
evaluate(E, rhs) ==
    CASE rhs.form = "literal" -> [env |-> E, value |-> StringValue(rhs.lit)]
      [] rhs.form = "variable" ->
            [env |-> get_variable(E, rhs.name),
             value |-> copy_from(Deref(E, rhs.name))]
      [] OTHER ->
            [env |-> get_variable(E, rhs.name),
             value |-> StringValue(to_string(Deref(E, rhs.name)) \o rhs.lit)]

\* evaluate(AssignExpr&) for  t = e  with a variable t.  The pattern
\* t = t ...  appends to the variable in place and returns AWKValue().
AssignResult(E, t, rhs) ==
    IF rhs.form = "concat" /\ rhs.name = t
    THEN [env |-> SetRef(E, t, append_string(Deref(E, t), rhs.lit)),
          value |-> Uninitialized]
    ELSE LET r == evaluate(E, rhs)
         IN [env |-> SetRef(r.env, t, r.value), value |-> r.value]

evaluate_AssignExpr ==
    /\ evals < MaxEvals
    /\ \E t \in ScalarNames, rhs \in RightHandSides :
         LET r == AssignResult(Env, t, rhs)
         IN /\ globals_' = r.env.globals_
            /\ locals_' = r.env.locals_
            /\ last_eval' = [op |-> "assign", form |-> rhs.form,
                             result |-> r.value,
                             stored |-> Deref(r.env, t)]
    /\ evals' = evals + 1
    /\ UNCHANGED calls
    /\ UNCHANGED notEval

\* name[key] = value: get_lvalue(ArrayAccessExpr&) and the assignment
assign_element ==
    /\ evals < MaxEvals
    /\ \E name \in ArraysInScope, key \in ArrayKeys :
         LET a == array_access(Deref(Env, name), key)
             F == SetRef(Env, name, [a EXCEPT !.arr[key] = <<"p">>])
         IN /\ globals_' = F.globals_
            /\ locals_' = F.locals_
            /\ calls' = IF calls = <<>> THEN calls
                        ELSE [calls EXCEPT ![Len(calls)].touched = @ \cup {key}]
    /\ last_eval' = [op |-> "element"]
    /\ evals' = evals + 1
    /\ UNCHANGED notEval

\* execute(DeleteStmt&): delete name[key]
execute_DeleteStmt ==
    /\ evals < MaxEvals
    /\ \E name \in ArraysInScope, key \in ArrayKeys :
         LET F == SetRef(Env, name, array_delete(Deref(Env, name), key))
         IN /\ globals_' = F.globals_
            /\ locals_' = F.locals_
            /\ calls' = IF calls = <<>> THEN calls
                        ELSE [calls EXCEPT ![Len(calls)].touched = @ \cup {key}]
    /\ last_eval' = [op |-> "delete"]
    /\ evals' = evals + 1
    /\ UNCHANGED notEval

\* evaluate(InExpr&): key in name
evaluate_InExpr ==
    /\ evals < MaxEvals
    /\ \E name \in ArraysInScope, key \in ArrayKeys :
         LET F == get_variable(Env, name)
         IN /\ globals_' = F.globals_
            /\ locals_' = F.locals_
            /\ last_eval' = [op |-> "in", name |-> name,
                             result |-> array_contains(Deref(Env, name), key),
                             keys_before |-> KeysOf(Env, name),
                             keys_after |-> KeysOf(F, name),
                             existed |-> has_variable(Env, name),
                             exists |-> has_variable(F, name)]
    /\ evals' = evals + 1
    /\ UNCHANGED calls
    /\ UNCHANGED notEval

\* evaluate(CallExpr&) and call_user_function for  modify(name): the
\* argument is evaluated to a value, the scope is pushed and the parameter
\* is set to the value
evaluate_CallExpr ==
    /\ evals < MaxEvals
    /\ Len(calls) < MaxCalls
    /\ \E name \in ArraysInScope :
         LET F == get_variable(Env, name)
             arg == copy_from(Deref(Env, name))
         IN /\ globals_' = F.globals_
            /\ locals_' = set_local(push_scope(F.locals_), Parameter,
                                    copy_from(arg))
            /\ calls' = Append(calls, [argument |-> name, touched |-> {}])
    /\ last_eval' = [op |-> "call"]
    /\ evals' = evals + 1
    /\ UNCHANGED notEval

\* call_user_function: the body has been executed, the scope is popped
call_returns ==
    /\ calls # <<>>
    /\ LET call == calls[Len(calls)]
           F == [globals_ |-> globals_, locals_ |-> pop_scope(locals_)]
       IN /\ locals_' = F.locals_
          /\ last_eval' = [op |-> "return",
                           touched |-> call.touched,
                           parameter |-> Deref(Env, Parameter).arr,
                           argument |-> Deref(F, call.argument).arr]
    /\ calls' = SubSeq(calls, 1, Len(calls) - 1)
    /\ UNCHANGED <<globals_, evals>>
    /\ UNCHANGED notEval

NextEval ==
    \/ evaluate_AssignExpr
    \/ assign_element
    \/ execute_DeleteStmt
    \/ evaluate_InExpr
    \/ evaluate_CallExpr
    \/ call_returns

SpecEval == InitEval /\ [][NextEval]_vars

\* C22: when a call of a user function with an array argument has returned,
\* every key assigned or deleted through the parameter is in the caller's
\* array exactly when it was in the parameter's array, with the same value.
C22_ArrayByReference ==
    last_eval.op = "return" =>
        \A key \in last_eval.touched :
            /\ key \in DOMAIN last_eval.parameter
                   <=> key \in DOMAIN last_eval.argument
            /\ key \in DOMAIN last_eval.parameter
                   => last_eval.parameter[key] = last_eval.argument[key]

\* C23: an assignment  t = e  evaluates to the value stored in t, for every
\* form of e.
C23_AssignYieldsStored ==
    last_eval.op = "assign" =>
        to_string(last_eval.result) = to_string(last_eval.stored)

\* C24: the membership test  key in a  creates nothing: the keys of a are
\* the keys before the test, and a variable a exists afterwards only if it
\* existed before.
C24_InCreatesNothing ==
    last_eval.op = "in" =>
        /\ last_eval.keys_after = last_eval.keys_before
        /\ last_eval.exists => last_eval.existed


\* ------------------------------------------------------------------------
\* The lexer: a regex or a division  (src/src/lexer.cpp)
\*
\* A text is a sequence of the characters "/", "=", "x" (a letter), "(",
\* ")", "!", "~" and "n" (a newline); it holds no blank, no comment and no
\* backslash.
\* ------------------------------------------------------------------------

LexChars == {"/", "=", "x", "(", ")", "!", "~", "n"}

\* Lexer::update_regex_expectation with ")" among the tokens a regex
\* follows
update_regex_expectation_after_rparen(last_type) ==
    last_type \notin {"IDENTIFIER", "REGEX", "SLASH", "EQ", "NE", "ERROR",
                      "END_OF_FILE"}

\* Lexer::update_regex_expectation: the value expect_regex_ gets
update_regex_expectation(last_type) ==
    last_type \in {"MATCH", "NOT_MATCH", "LPAREN", "COMMA", "LBRACE",
                   "SEMICOLON", "NEWLINE", "RETURN", "PRINT", "PRINTF", "IF",
                   "WHILE", "FOR", "DO", "ASSIGN", "PLUS_ASSIGN",
                   "MINUS_ASSIGN", "STAR_ASSIGN", "SLASH_ASSIGN",
                   "PERCENT_ASSIGN", "CARET_ASSIGN", "NOT", "AND", "OR",
                   "QUESTION", "COLON"}

\* the character at position i of the text, "" after its end
CharAt(src, i) == IF i <= Len(src) THEN src[i] ELSE ""

\* Lexer::scan_regex with current_ = i, after the opening "/": the type of
\* the token and current_ afterwards
RECURSIVE scan_regex_at(_, _)
scan_regex_at(src, i) ==
    IF i > Len(src) THEN [type |-> "ERROR", next |-> i]
    ELSE IF src[i] = "/" THEN [type |-> "REGEX", next |-> i + 1]
    ELSE IF src[i] = "n" THEN [type |-> "ERROR", next |-> i]
    ELSE scan_regex_at(src, i + 1)

\* Lexer::scan_identifier: the letters from position i on
RECURSIVE scan_identifier(_, _)
scan_identifier(src, i) ==
    IF CharAt(src, i) = "x" THEN scan_identifier(src, i + 1)
    ELSE [type |-> "IDENTIFIER", next |-> i]

\* Lexer::scan_token with current_ = i and expect_regex_ = flag: the type
\* of the token, current_ and expect_regex_ afterwards
lexer_scan_token(src, i, flag) ==
    LET c == CharAt(src, i)
        d == CharAt(src, i + 1)
        one(t) == [type |-> t, next |-> i + 1, flag |-> flag]
        two(t) == [type |-> t, next |-> i + 2, flag |-> flag]
    IN CASE c = "" -> [type |-> "END_OF_FILE", next |-> i, flag |-> flag]
         [] c = "x" -> [type |-> "IDENTIFIER",
                        next |-> scan_identifier(src, i + 1).next,
                        flag |-> flag]
         [] c = "/" ->
               IF flag
               THEN [type |-> scan_regex_at(src, i + 1).type,
                     next |-> scan_regex_at(src, i + 1).next,
                     flag |-> FALSE]
               ELSE IF d = "=" THEN two("SLASH_ASSIGN") ELSE one("SLASH")
         [] c = "(" -> one("LPAREN")
         [] c = ")" -> one("RPAREN")
         [] c = "~" -> one("MATCH")
         [] c = "n" -> one("NEWLINE")
         [] c = "=" -> IF d = "=" THEN two("EQ") ELSE one("ASSIGN")
         [] OTHER -> IF d = "=" THEN two("NE")
                     ELSE IF d = "~" THEN two("NOT_MATCH")
                     ELSE one("NOT")

\* Lexer::Lexer: expect_regex_(true)
InitLex ==
    /\ source_ \in SeqsUpTo(LexChars, MaxSource)
    /\ current_ = 1
    /\ expect_regex_ = TRUE
    /\ has_peeked_ = FALSE
    /\ peeked_token_ = "none"
    /\ returned = "none"
    /\ lexer_op = "none"
    /\ scanned = NoScan
    /\ IdleRun
    /\ IdleCall
    /\ IdleIO
    /\ IdleRec
    /\ IdleRange
    /\ IdleMain
    /\ IdleRegex
    /\ IdleEval
    /\ IdleInc
    /\ IdleParse
    /\ IdleOut

Scan == lexer_scan_token(source_, current_, expect_regex_)

ScanRecord ==
    [char |-> CharAt(source_, current_), flag |-> expect_regex_,
     type |-> Scan.type, prev |-> returned]

\* Lexer::next_token
next_token ==
    /\ returned # "END_OF_FILE"
    /\ IF has_peeked_
       THEN /\ has_peeked_' = FALSE
            /\ returned' = peeked_token_
            /\ expect_regex_' = update_regex_expectation(peeked_token_)
            /\ UNCHANGED <<current_, scanned>>
       ELSE /\ returned' = Scan.type
            /\ current_' = Scan.next
            /\ expect_regex_' = update_regex_expectation(Scan.type)
            /\ scanned' = ScanRecord
            /\ UNCHANGED has_peeked_
    /\ lexer_op' = "next_token"
    /\ UNCHANGED <<source_, peeked_token_>>
    /\ UNCHANGED notLex

\* Lexer::peek_token, called as by Parser::peek_next_is
peek_token ==
    /\ returned # "END_OF_FILE"
    /\ ~has_peeked_
    /\ peeked_token_' = Scan.type
    /\ current_' = Scan.next
    /\ expect_regex_' = Scan.flag
    /\ has_peeked_' = TRUE
    /\ scanned' = ScanRecord
    /\ lexer_op' = "peek_token"
    /\ UNCHANGED <<source_, returned>>
    /\ UNCHANGED notLex

\* Parser::parse_pattern on the token "!": lexer_.expect_regex() and
\* lexer_.peek_token()
parse_pattern_not ==
    /\ returned = "NOT"
    /\ lexer_op # "expect_regex"
    /\ IF has_peeked_
       THEN /\ expect_regex_' = TRUE
            /\ UNCHANGED <<peeked_token_, current_, has_peeked_, scanned>>
       ELSE LET r == lexer_scan_token(source_, current_, TRUE)
            IN /\ peeked_token_' = r.type
               /\ current_' = r.next
               /\ expect_regex_' = r.flag
               /\ has_peeked_' = TRUE
               /\ scanned' = [ScanRecord EXCEPT !.flag = TRUE, !.type = r.type]
    /\ lexer_op' = "expect_regex"
    /\ UNCHANGED <<source_, returned>>
    /\ UNCHANGED notLex

NextLex ==
    \/ next_token
    \/ peek_token
    \/ parse_pattern_not

SpecLex == InitLex /\ [][NextLex]_vars

\* the tokens after which the lexer is to expect a regex: none (the start
\* of the text), ~ !~ ( , { ; newline, return print printf if while for do,
\* the assignment operators, ! && || ? :
RegexMayFollow(t) ==
    t \in {"none", "MATCH", "NOT_MATCH", "LPAREN", "COMMA", "LBRACE",
           "SEMICOLON", "NEWLINE", "RETURN", "PRINT", "PRINTF", "IF", "WHILE",
           "FOR", "DO", "ASSIGN", "PLUS_ASSIGN", "MINUS_ASSIGN",
           "STAR_ASSIGN", "SLASH_ASSIGN", "PERCENT_ASSIGN", "CARET_ASSIGN",
           "NOT", "AND", "OR", "QUESTION", "COLON"}

\* C29: expect_regex_ is true before the first token; after next_token has
\* returned a token T it is true exactly when T is one of the tokens a
\* regex may follow; and a "/" is scanned as a regex literal exactly when
\* the flag is true at that point, which is when the token before it is one
\* of those tokens, and as / or /= otherwise.
C29_RegexExpectation ==
    /\ lexer_op = "none" => expect_regex_
    /\ lexer_op = "next_token" => (expect_regex_ <=> RegexMayFollow(returned))
    /\ scanned.char = "/" =>
          /\ scanned.type \in {"REGEX", "ERROR"} <=> scanned.flag
          /\ scanned.type \in {"REGEX", "ERROR", "SLASH", "SLASH_ASSIGN"}
          /\ scanned.flag <=> RegexMayFollow(scanned.prev)

\* the text  ~/x/ : the regex after the match operator has been returned
C29_Witness ==
    /\ lexer_op = "next_token"
    /\ returned = "REGEX"
    /\ scanned = [char |-> "/", flag |-> TRUE, type |-> "REGEX",
                  prev |-> "MATCH"]
    /\ ~expect_regex_


\* ------------------------------------------------------------------------
\* The cache of compiled regexes  (src/src/regex_cache.cpp)
\*
\* The cache treats all keys alike, so the n-th distinct key a program
\* requests is taken to be KeyOf(n): the patterns 1, 2, ... in turn, each
\* first without and then with the flag icase.  A request is a hit, a miss
\* for a new key, a miss for a key that was evicted, or a miss for a pattern
\* that does not compile.
\* ------------------------------------------------------------------------

\* RegexCache::MAX_CACHE_SIZE
MAX_CACHE_SIZE == 64

\* CacheKey{pattern, flags} of the n-th distinct key
KeyOf(n) == [pattern |-> (n + 1) \div 2, flags |-> (n + 1) % 2]

\* the number of the key
NumberOf(key) == 2 * key.pattern - 1 + key.flags

\* The order in which the unordered_map is iterated is left to the
\* library; the model lets the iteration start with the keys requested
\* first or with the keys requested last.
IterationOrders == {"first", "last"}

\* the n first elements of the iteration over the cache
FirstOf(cache, order, n) ==
    {k \in cache :
        Cardinality({j \in cache :
                        IF order = "first" THEN NumberOf(j) < NumberOf(k)
                        ELSE NumberOf(j) > NumberOf(k)}) < n}

\* RegexCache::evict_if_needed testing for more than MAX_CACHE_SIZE entries
evict_if_needed_when_over(cache, order) ==
    IF Cardinality(cache) > MAX_CACHE_SIZE
    THEN cache \ FirstOf(cache, order, Cardinality(cache) \div 2)
    ELSE cache

\* RegexCache::evict_if_needed: the cache after the call
evict_if_needed(cache, order) ==
    IF Cardinality(cache) >= MAX_CACHE_SIZE
    THEN cache \ FirstOf(cache, order, Cardinality(cache) \div 2)
    ELSE cache

\* RegexCache() = default
InitRegex ==
    /\ cache_ = {}
    /\ misses_ = 0
    /\ requested = 0
    /\ last_get = NoGet
    /\ IdleRun
    /\ IdleCall
    /\ IdleIO
    /\ IdleRec
    /\ IdleRange
    /\ IdleMain
    /\ IdleLex
    /\ IdleEval
    /\ IdleInc
    /\ IdleParse
    /\ IdleOut

\* the keys requested before
Known == {KeyOf(n) : n \in 1..requested}

\* RegexCache::get, the key is in the cache
get_hit ==
    /\ cache_ # {}
    /\ last_get' = [hit |-> TRUE, before |-> Cardinality(cache_),
                    evicted |-> 0, inserted |-> FALSE]
    /\ UNCHANGED <<cache_, misses_, requested>>
    /\ UNCHANGED notRegex

\* RegexCache::get, the key is not in the cache and the pattern compiles:
\* the key is a new one or one that was evicted
get_miss ==
    /\ misses_ < MaxMisses
    /\ \E key \in (Known \ cache_) \cup {KeyOf(requested + 1)},
          order \in IterationOrders :
         LET kept == evict_if_needed(cache_, order)
         IN /\ cache_' = kept \cup {key}
            /\ requested' = IF key \in Known THEN requested ELSE requested + 1
            /\ last_get' = [hit |-> FALSE, before |-> Cardinality(cache_),
                            evicted |-> Cardinality(cache_ \ kept),
                            inserted |-> TRUE]
    /\ misses_' = misses_ + 1
    /\ UNCHANGED notRegex

\* RegexCache::get, the pattern does not compile: std::regex throws after
\* evict_if_needed, nothing is stored
get_invalid ==
    /\ misses_ < MaxMisses
    /\ \E order \in IterationOrders :
         LET kept == evict_if_needed(cache_, order)
         IN /\ cache_' = kept
            /\ last_get' = [hit |-> FALSE, before |-> Cardinality(cache_),
                            evicted |-> Cardinality(cache_ \ kept),
                            inserted |-> FALSE]
    /\ misses_' = misses_ + 1
    /\ UNCHANGED requested
    /\ UNCHANGED notRegex

NextRegex ==
    \/ get_hit
    \/ get_miss
    \/ get_invalid

SpecRegex == InitRegex /\ [][NextRegex]_vars

\* C30: the cache never holds more than MAX_CACHE_SIZE entries, and an
\* insert into a full cache first evicts half of the entries.
C30_CacheBounded ==
    /\ Cardinality(cache_) <= MAX_CACHE_SIZE
    /\ (last_get.inserted /\ last_get.before = MAX_CACHE_SIZE)
          => /\ last_get.evicted = MAX_CACHE_SIZE \div 2
             /\ Cardinality(cache_) = MAX_CACHE_SIZE \div 2 + 1

\* a key has been inserted into the full cache
C30_Witness ==
    /\ last_get.inserted
    /\ last_get.before = MAX_CACHE_SIZE
    /\ Cardinality(cache_) = 33

=============================================================================
